---- MODULE Spec2Model ----
(***************************************************************************)
(* BLHeli32GKE.c: brushless motor commutation firmware, MULTI mode build   *)
(* (MODE == MULTI_MODE, DAMPED_MODE_ENABLE, HIGH_DRIVER_PRECHG_TIME and    *)
(* MCU_50MHZ undefined, i.e. 0).                                           *)
(*                                                                         *)
(* The file is a partial transliteration from 8051 assembler to C.  A      *)
(* routine with a C body is modelled from the C.  A routine whose body is  *)
(* only retained as the assembler listing inside a comment is modelled     *)
(* from that listing, the only statement of its behaviour in the           *)
(* repository; in the listing "A/=2" stands for rrc (rotate right through  *)
(* carry) and register pairs TempN+1:TempN hold 16-bit values.  Lines      *)
(* prefixed //zz are disabled and not modelled; the 8051 special function  *)
(* registers they touch (EA, EIE1) have no counterpart in the C port, so   *)
(* an interrupt handler may run between any two routines of the main       *)
(* program.                                                                *)
(***************************************************************************)
EXTENDS Integers, Sequences, FiniteSets, TLC

VARIABLES
    pc,                 \* position of the main program
    ip,                 \* index of the next routine within the loop body
    runState,           \* run1..run6, kept as 1..6
    F,                  \* Flags F
    P,                  \* struct Params P (the fields the core reads)
    DPTR,               \* pwm-on handler selected by the commutation routines
    fets,               \* commanded state of the six switches
    deadTime,           \* FET_DELAY counts seen by the last on-command that
                        \* followed an off-command of the same leg (-1: none)
    Comm_Phase,
    Comm_Period4x,
    Prev_Comm,
    New_Rcp,
    Requested_Pwm, Governor_Req_Pwm, Current_Pwm, Current_Pwm_Limited,
    Pwm_Limit, Pwm_Limit_Spoolup, Pwm_Limit_Low_Rpm, Pwm_Motor_Idle,
    Gov_Target, Gov_Integral, Gov_Integral_X, Gov_Proportional, Gov_Active,
    Demag_Detected_Metric, Demag_Pwr_Off_Thresh, Low_Rpm_Pwr_Slope,
    Pwm_Spoolup_Beg,
    Startup_Ok_Cnt, Comparator_Read_Cnt,
    Wt_Comm, Wt_Advance, Wt_Zc_Scan, Wt_Zc_Timeout, Next_Wt, TMR3,
    hist                \* history: the number of commutations done (main
                        \* program); the observations of a component
                        \* specification

ctlVars == <<pc, ip, runState>>
drvVars == <<DPTR, fets, deadTime, Comm_Phase>>
timVars == <<Comm_Period4x, Prev_Comm>>
pwmVars == <<Requested_Pwm, Governor_Req_Pwm, Current_Pwm, Current_Pwm_Limited,
             Pwm_Limit, Pwm_Limit_Spoolup, Pwm_Limit_Low_Rpm, Pwm_Motor_Idle,
             Pwm_Spoolup_Beg>>
govVars == <<Gov_Target, Gov_Integral, Gov_Integral_X, Gov_Proportional, Gov_Active>>
demagVars == <<Demag_Detected_Metric, Demag_Pwr_Off_Thresh, Low_Rpm_Pwr_Slope>>
cntVars == <<Startup_Ok_Cnt, Comparator_Read_Cnt>>
wtVars  == <<Wt_Comm, Wt_Advance, Wt_Zc_Scan, Wt_Zc_Timeout>>
t3Vars  == <<Next_Wt, TMR3>>

vars == <<ctlVars, F, P, drvVars, timVars, New_Rcp, pwmVars, govVars,
          demagVars, cntVars, wtVars, t3Vars, hist>>

----------------------------------------------------------------------------
(* Program constants *)

RCP_STOP       == 1
RCP_MAX        == 255
COMM_TIME_RED  == 1
COMM_TIME_MIN  == 1
NFETON_DELAY   == 0
PFETON_DELAY   == 0
DAMPED_MODE_ENABLE == 0

----------------------------------------------------------------------------
(* Phase driver: the six switch commands and FET_DELAY *)

FETs  == {"Ap", "An", "Bp", "Bn", "Cp", "Cn"}
Legs  == {"A", "B", "C"}
pFET(l) == IF l = "A" THEN "Ap" ELSE IF l = "B" THEN "Bp" ELSE "Cp"
nFET(l) == IF l = "A" THEN "An" ELSE IF l = "B" THEN "Bn" ELSE "Cn"

\* the other switch of the same leg
Compl(x) ==
    CASE x = "Ap" -> "An" [] x = "An" -> "Ap"
      [] x = "Bp" -> "Bn" [] x = "Bn" -> "Bp"
      [] x = "Cp" -> "Cn" [] x = "Cn" -> "Cp"

\* A driver record d carries the commanded switch states (on), for every
\* switch the FET_DELAY counts since this routine switched it from on to off
\* (gap, -1 when it did not), and the dead time seen by the last on-command
\* whose leg partner was switched off by the same routine (dead).
Drv(on, dead) == [on |-> on, gap |-> [x \in FETs |-> -1], dead |-> dead]

XFET_off(d, x) ==
    [d EXCEPT !.on[x] = FALSE, !.gap[x] = IF d.on[x] THEN 0 ELSE @]

XFET_on(d, x) ==
    [d EXCEPT !.on[x] = TRUE,
              !.dead = IF d.gap[Compl(x)] # -1 THEN d.gap[Compl(x)] ELSE @]

FET_DELAY(d, n) ==
    [d EXCEPT !.gap = [x \in FETs |-> IF d.gap[x] = -1 THEN -1 ELSE d.gap[x] + n]]

All_nFETs_off(d) == XFET_off(XFET_off(XFET_off(d, "An"), "Bn"), "Cn")
All_pFETs_off(d) == XFET_off(XFET_off(XFET_off(d, "Ap"), "Bp"), "Cp")
All_pFETs_on(d)  == XFET_on(XFET_on(XFET_on(d, "Ap"), "Bp"), "Cp")

switch_power_off(d) == All_pFETs_off(All_nFETs_off(d))

----------------------------------------------------------------------------
(* Pwm-on handlers, reached from t0_int_start through DPTR *)

Handlers == {"pwm_noBnFET_off", "pwm_aBnFET_off", "pwm_bBnFET_off", "pwm_cBnFET_off",
             "pwm_anfet_bpBnFET_off", "pwm_anfet_cpBnFET_off",
             "pwm_bnfet_cpBnFET_off", "pwm_bnfet_apBnFET_off",
             "pwm_cnfet_apBnFET_off", "pwm_cnfet_bpBnFET_off"}

\* two pFETs off, FET_DELAY(NFETON_DELAY), one nFET on, one nFET off
DampedOn(d, p1, p2, non, noff) ==
    XFET_off(XFET_on(FET_DELAY(XFET_off(XFET_off(d, p1), p2), NFETON_DELAY), non), noff)

PwmOnHandler(h, d) ==
    CASE h = "pwm_noBnFET_off"       -> d
      [] h = "pwm_aBnFET_off"        -> XFET_off(XFET_on(d, "An"), "Bn")
      [] h = "pwm_bBnFET_off"        -> XFET_off(XFET_on(d, "Bn"), "Cn")
      [] h = "pwm_cBnFET_off"        -> XFET_off(XFET_on(d, "Cn"), "An")
      [] h = "pwm_anfet_bpBnFET_off" -> DampedOn(d, "Ap", "Cp", "An", "Bn")
      [] h = "pwm_anfet_cpBnFET_off" -> DampedOn(d, "Ap", "Bp", "An", "Bn")
      [] h = "pwm_bnfet_cpBnFET_off" -> DampedOn(d, "Bp", "Ap", "Bn", "Cn")
      [] h = "pwm_bnfet_apBnFET_off" -> DampedOn(d, "Bp", "Cp", "Bn", "Cn")
      [] h = "pwm_cnfet_apBnFET_off" -> DampedOn(d, "Cp", "Bp", "Cn", "An")
      [] h = "pwm_cnfet_bpBnFET_off" -> DampedOn(d, "Cp", "Ap", "Cn", "An")

\* pwm-off cycle in damped operation: nFETs off, FET_DELAY(PFETON_DELAY), then
\* CpFET_on (the jumps to the comm_3_4 and comm_5_6 variants are disabled)
t0_int_pwm_off_damped(d) ==
    XFET_on(FET_DELAY(All_nFETs_off(d), PFETON_DELAY), "Cp")

\* pwm-off cycle after PWM_ON is cleared; the damped branch is compiled in
\* when DAMPED_MODE_ENABLE is 1
t0_int_pwm_off(d, f, pwmLimited, dampedEnable) ==
    IF pwmLimited = 255 THEN d
    ELSE IF ~f.MOTOR_SPINNING THEN All_nFETs_off(d)
    ELSE IF dampedEnable = 1 /\ f.PGM_PWMOFF_DAMPED THEN t0_int_pwm_off_damped(d)
    ELSE All_nFETs_off(d)

----------------------------------------------------------------------------
(* Commutation routines.  Each takes the driver record, the flags and the  *)
(* current DPTR and yields the new driver record, DPTR, Comm_Phase, flags. *)

\* the demag power cut flag left as it is
comm_exit_keep(r) ==
    [r EXCEPT !.d = IF r.F.DIR_CHANGE_BRAKE
                    THEN All_pFETs_on(FET_DELAY(FET_DELAY(switch_power_off(r.d),
                                        NFETON_DELAY), NFETON_DELAY))
                    ELSE r.d]

comm_exit(r) ==
    [r EXCEPT !.d = IF r.F.DIR_CHANGE_BRAKE
                    THEN All_pFETs_on(FET_DELAY(FET_DELAY(switch_power_off(r.d),
                                        NFETON_DELAY), NFETON_DELAY))
                    ELSE r.d,
              !.F.DEMAG_CUT_POWER = FALSE]

\* the phase that follows 6 stored as 6 again
CommRec_nowrap(d, f, dptr, ph) ==
    [d |-> d, F |-> f, DPTR |-> dptr, Comm_Phase |-> IF ph = 1 THEN 6 ELSE ph]

CommRec(d, f, dptr, ph) == [d |-> d, F |-> f, DPTR |-> dptr, Comm_Phase |-> ph]

comm1comm2(d, f, dptr) ==
    LET d1 == All_pFETs_off(d)
        d2 == IF ~f.PGM_PWMOFF_DAMPED THEN FET_DELAY(d1, NFETON_DELAY) ELSE d1
        p2 == IF ~f.PGM_PWMOFF_DAMPED THEN "pwm_cnfet_apBnFET_off" ELSE dptr
    IN  comm_exit(CommRec(XFET_on(d2, "Ap"), f, p2, 2))

comm2comm3(d, f, dptr) ==
    LET d1 == XFET_off(d, "Cn")
        d2 == IF ~f.PGM_PWMOFF_DAMPED
              THEN FET_DELAY(XFET_off(XFET_off(d1, "Bp"), "Cp"), NFETON_DELAY)
              ELSE d1
        p2 == IF ~f.PGM_PWMOFF_DAMPED THEN "pwm_bnfet_apBnFET_off" ELSE "pwm_bBnFET_off"
        d3 == IF ~f.PWM_ON THEN XFET_on(d2, "Bn") ELSE d2
    IN  comm_exit(CommRec(d3, f, p2, 3))

comm3comm4(d, f, dptr) ==
    LET d1 == All_pFETs_off(d)
        d2 == IF f.PGM_PWMOFF_DAMPED THEN FET_DELAY(d1, NFETON_DELAY) ELSE d1
        p2 == IF f.PGM_PWMOFF_DAMPED THEN "pwm_bnfet_cpBnFET_off" ELSE dptr
    IN  comm_exit(CommRec(XFET_on(d2, "Cp"), f, p2, 4))

comm4comm5(d, f, dptr) ==
    LET d1 == XFET_off(d, "Bn")
        d2 == IF f.PGM_PWMOFF_DAMPED
              THEN FET_DELAY(XFET_off(XFET_off(d1, "Ap"), "Bp"), NFETON_DELAY)
              ELSE IF f.PWM_ON THEN XFET_on(d1, "An") ELSE d1
        p2 == IF f.PGM_PWMOFF_DAMPED THEN "pwm_anfet_cpBnFET_off" ELSE "pwm_aBnFET_off"
    IN  comm_exit(CommRec(d2, f, p2, 5))

comm5comm6(d, f, dptr) ==
    LET d1 == All_pFETs_off(d)
        d2 == IF f.PGM_PWMOFF_DAMPED THEN FET_DELAY(d1, NFETON_DELAY) ELSE d1
        p2 == IF f.PGM_PWMOFF_DAMPED THEN "pwm_anfet_bpBnFET_off" ELSE dptr
    IN  comm_exit(CommRec(XFET_on(d2, "Bp"), f, p2, 6))

comm6comm1(d, f, dptr) ==
    LET d1 == XFET_off(d, "An")
        d2 == IF f.PGM_PWMOFF_DAMPED
              THEN FET_DELAY(XFET_off(XFET_off(d1, "Ap"), "Cp"), NFETON_DELAY)
              ELSE d1
        p2 == IF f.PGM_PWMOFF_DAMPED THEN "pwm_cnfet_bpBnFET_off" ELSE "pwm_cBnFET_off"
        d3 == IF f.PWM_ON THEN XFET_on(d2, "Cn") ELSE d2
    IN  comm_exit(CommRec(d3, f, p2, 1))

----------------------------------------------------------------------------
(* Arithmetic helpers of the 8-bit listing *)

Byte(x)   == x % 256
Word(x)   == x % 65536
HiByte(x) == Word(x) \div 256

\* x shifted right n times
RECURSIVE Shr(_, _)
Shr(x, n) == IF n = 0 THEN x ELSE Shr(x \div 2, n - 1)

\* C integer division truncates toward zero
CDiv(a, b) == IF a >= 0 THEN a \div b ELSE -((-a) \div b)

\* Limit1(x, l) of UAVX.h: x confined to [-l, l]
Limit1(x, l) == IF x < -l THEN -l ELSE IF x > l THEN l ELSE x

----------------------------------------------------------------------------
(* Commutation timing *)

\* initialize_all_timings
InitialCommPeriod == 32512

\* calc_next_comm_slow
SlowCommPeriod == 65535

\* the counts of the fast and of the slow motor exchanged
CommAvgShifts_swapped(period) ==
    IF period < 2048 THEN <<4, 2>> ELSE <<3, 1>>

\* only the count for the new commutation time is decremented
CommAvgShifts_uneven(period) ==
    IF period < 2048 THEN <<4, 1>> ELSE <<4, 2>>

\* Number of halvings of the old period (Temp7) and of the new commutation
\* time (Temp8).  The listing compares the period with 0x0400 and, in the else
\* branch, with 0x0800; both branches decrement each count once.
CommAvgShifts(period) ==
    IF period < 1024 THEN <<3, 1>>
    ELSE IF period < 2048 THEN <<3, 1>>
    ELSE <<4, 2>>

\* calc_next_comm_timing: the new commutation time is the 16-bit difference of
\* the timer 2 reading and Prev_Comm; a fraction of the old period is replaced
\* by a fraction of the new time; a carry out of 16 bits branches to
\* calc_next_comm_slow.
NewCommTime(tmr2, prev) == Word(tmr2 - prev + 65536)

CalcNextCommPeriod(period, newTime) ==
    LET old == Word(period)
        sh  == CommAvgShifts(old)
        sum == old - Shr(old, sh[1]) + Shr(newTime, sh[2])
    IN  IF sum > 65535 THEN SlowCommPeriod ELSE sum

\* the timing setting raised once only
WaitTiming_once(timing, metric) ==
    LET t1 == IF metric >= 130 THEN timing + 1 ELSE timing
    IN  IF t1 >= 6 THEN 5 ELSE t1

\* calc_new_wait_times: the timing setting raised by the demag metric
WaitTiming(timing, metric) ==
    LET t1 == IF metric >= 130 THEN timing + 1 ELSE timing
        t2 == IF metric >= 160 THEN t1 + 1 ELSE t1
    IN  IF t2 >= 6 THEN 5 ELSE t2

\* calc_new_wait_times: the fixed reduction Temp7
WaitReduction(period, damped) ==
    LET h  == HiByte(period)
        r0 == (COMM_TIME_RED * 2) - 1
        r1 == IF damped THEN r0 + 1 ELSE r0
        r2 == IF h < 3 THEN (IF damped THEN r1 + 3 ELSE r1 + 2) ELSE r1
    IN  IF h < 2 THEN (IF damped THEN r2 + 3 ELSE r2 + 2) ELSE r2

\* the check against the minimum left out
WaitBase_nomin(period, damped) ==
    LET q == Shr(Word(period), 4) - WaitReduction(period, damped)
    IN  IF q < 0 THEN COMM_TIME_MIN * 2 ELSE q

\* calc_new_wait_times: the 15 degree time Temp2:Temp1 after reduction and
\* minimum
WaitBase(period, damped) ==
    LET q == Shr(Word(period), 4) - WaitReduction(period, damped)
    IN  IF q < 0 \/ q < COMM_TIME_MIN * 2 THEN COMM_TIME_MIN * 2 ELSE q

\* the minimum time given to one wait not taken from the other
calc_new_wait_times_nosub(period, timing, metric, damped) ==
    LET base == WaitBase(period, damped)
        half == base \div 2
        t8   == WaitTiming(timing, metric)
        odd  == t8 % 2 = 1
        t12  == IF t8 = 3 THEN base
                ELSE IF odd THEN Word(base + base)
                ELSE Word(base + half)
        t34  == IF t8 = 3 THEN base
                ELSE IF odd THEN COMM_TIME_MIN * 2
                ELSE half
        incr == t8 # 3 /\ t8 >= 3
    IN  [Wt_Zc_Timeout |-> base,
         Wt_Comm       |-> IF incr THEN t34 ELSE t12,
         Wt_Advance    |-> IF incr THEN t12 ELSE t34,
         Wt_Zc_Scan    |-> half]

calc_new_wait_times(period, timing, metric, damped) ==
    LET base == WaitBase(period, damped)
        half == base \div 2
        t8   == WaitTiming(timing, metric)
        odd  == t8 % 2 = 1
        t12  == IF t8 = 3 THEN base
                ELSE IF odd THEN Word(Word(base + base) - (COMM_TIME_MIN * 2) + 65536)
                ELSE Word(base + half)
        t34  == IF t8 = 3 THEN base
                ELSE IF odd THEN COMM_TIME_MIN * 2
                ELSE half
        incr == t8 # 3 /\ t8 >= 3
    IN  [Wt_Zc_Timeout |-> base,
         Wt_Comm       |-> IF incr THEN t34 ELSE t12,
         Wt_Advance    |-> IF incr THEN t12 ELSE t34,
         Wt_Zc_Scan    |-> half]

----------------------------------------------------------------------------
(* Demagnetisation metric *)

\* wait_for_comm: sliding average of 8 over 256 (demag) and 0 (no demag),
\* limited to minimum 120
DemagMetricFloor == 120

\* the limit to the minimum left out
NewDemagMetric_nofloor(metric, enabled, detected) ==
    LET t1 == IF enabled /\ detected THEN 1 ELSE 0
        hi == Byte(((7 * Byte(metric)) \div 256) + t1)
        lo == Byte(7 * Byte(metric))
    IN  ((hi % 8) * 32) + (lo \div 8)

\* the demag flag not added to the average
NewDemagMetric_noflag(metric, enabled, detected) ==
    LET a == (7 * Byte(metric)) \div 8
    IN  IF a < DemagMetricFloor THEN DemagMetricFloor ELSE a

\* the division by 8 rounded up
NewDemagMetric_roundup(metric, enabled, detected) ==
    LET t1 == IF enabled /\ detected THEN 1 ELSE 0
        a  == ((7 * Byte(metric)) + (256 * t1) + 7) \div 8
        b  == IF a > 255 THEN 255 ELSE a
    IN  IF b < DemagMetricFloor THEN DemagMetricFloor ELSE b

NewDemagMetric(metric, enabled, detected) ==
    LET t1 == IF enabled /\ detected THEN 1 ELSE 0
        hi == Byte(((7 * Byte(metric)) \div 256) + t1)
        lo == Byte(7 * Byte(metric))
        a  == ((hi % 8) * 32) + (lo \div 8)
    IN  IF a < DemagMetricFloor THEN DemagMetricFloor ELSE a

\* decode_demag_comp: <<Demag_Pwr_Off_Thresh, Low_Rpm_Pwr_Slope>>
decode_demag_comp(comp) ==
    IF comp = 3 THEN <<130, 5>>
    ELSE IF comp = 2 THEN <<160, 10>>
    ELSE <<255, 12>>

\* the limit to the minimum Pwm_Spoolup_Beg left out
set_pwm_limit_low_rpm_nomin(period, f, pwmLimited, slope, spoolBeg) ==
    LET h    == HiByte(period)
        en   == ~(h >= 10 /\ pwmLimited < 64)
        prod == (255 \div h) * slope
    IN  IF f.STARTUP_PHASE \/ f.INITIAL_RUN_PHASE THEN <<255, FALSE>>
        ELSE IF h = 0 THEN <<255, en>>
        ELSE <<IF prod > 255 THEN 255 ELSE prod, en>>

\* set_pwm_limit_low_rpm: <<Pwm_Limit_Low_Rpm, DEMAG_ENABLED>>
set_pwm_limit_low_rpm(period, f, pwmLimited, slope, spoolBeg) ==
    LET h    == HiByte(period)
        en   == ~(h >= 10 /\ pwmLimited < 64)
        prod == (255 \div h) * slope
        lim  == IF prod > 255 THEN 255 ELSE prod
    IN  IF f.STARTUP_PHASE \/ f.INITIAL_RUN_PHASE THEN <<255, FALSE>>
        ELSE IF h = 0 THEN <<255, en>>
        ELSE IF lim < spoolBeg THEN <<spoolBeg, en>>
        ELSE <<lim, en>>

----------------------------------------------------------------------------
(* Governor (multi) on a record g of the variables the routines touch:     *)
(* Gov_Target, Gov_Integral, Gov_Integral_X, Gov_Proportional, Gov_Active, *)
(* Governor_Req_Pwm, Current_Pwm, Comm_Period4x                            *)

GovRec == [Gov_Target |-> Gov_Target, Gov_Integral |-> Gov_Integral,
           Gov_Integral_X |-> Gov_Integral_X, Gov_Proportional |-> Gov_Proportional,
           Gov_Active |-> Gov_Active, Governor_Req_Pwm |-> Governor_Req_Pwm,
           Current_Pwm |-> Current_Pwm, Comm_Period4x |-> Comm_Period4x]

governor_deactivate(g, reqPwm) ==
    [g EXCEPT !.Current_Pwm = reqPwm,
              !.Gov_Target = 0, !.Gov_Integral = 0, !.Gov_Integral_X = 0,
              !.Gov_Active = FALSE]

\* quot stands for 51000L / Requested_Pwm
governor_activate(g, p, reqPwm, quot) ==
    [g EXCEPT !.Gov_Active = (p.Gov_Mode # 0),
              !.Governor_Req_Pwm = reqPwm,
              !.Comm_Period4x = quot * 2]

\* calc_governor_target (multi); quot stands for 51000L / Requested_Pwm
CalcGovernorTarget(g, p, reqPwm, newRcp, quot) ==
    IF p.Gov_Mode # 0 THEN governor_activate(g, p, reqPwm, quot)
    ELSE IF newRcp < RCP_STOP THEN governor_deactivate(g, reqPwm)
    ELSE g

\* the integral terms kept
init_start_governor_keep(g) == [g EXCEPT !.Gov_Target = 0, !.Gov_Active = FALSE]

\* init_start: the governor variables at the start of a motor run
init_start_governor(g) ==
    [g EXCEPT !.Gov_Target = 0, !.Gov_Integral = 0, !.Gov_Integral_X = 0,
              !.Gov_Active = FALSE]

calc_governor_prop_error(g, pwmLimit) ==
    IF g.Gov_Active
    THEN LET prop == g.Governor_Req_Pwm - g.Gov_Target
         IN  [g EXCEPT !.Gov_Proportional = prop,
                       !.Gov_Integral_X = Limit1(g.Gov_Integral_X + prop, 127),
                       !.Current_Pwm = Limit1(g.Current_Pwm, pwmLimit)]
    ELSE g

\* GOV_GAIN_TABLE: the gains of the settings 1..13, in sixteenths.  The
\* corrections below do not read it.
GOV_GAIN_TABLE == <<2, 3, 4, 6, 8, 12, 16, 24, 32, 48, 64, 96, 128>>

calc_governor_prop_correction(g, p) ==
    IF g.Gov_Active
    THEN [g EXCEPT !.Gov_Proportional =
                       Limit1(CDiv(p.Gov_P_Gain * g.Gov_Proportional, 16), 127)]
    ELSE g

calc_governor_int_correction(g, p) ==
    IF g.Gov_Active
    THEN [g EXCEPT !.Gov_Integral =
                       Limit1(CDiv(p.Gov_I_Gain * g.Gov_Integral, 16), 127)]
    ELSE g

----------------------------------------------------------------------------
(* Parameters *)

\* decode_parameters: the condition "P.Pwm_Freq = 3" is an assignment
decode_parameters(f, p) ==
    [F |-> [f EXCEPT !.PGM_PWMOFF_DAMPED = FALSE,
                     !.PGM_DIR_REV = IF p.Direction = 3 THEN @ ELSE TRUE,
                     !.PGM_RCP_PWM_POL = (p.Input_Pol # 0),
                     !.PGM_PWM_HIGH_FREQ = FALSE],
     P |-> [p EXCEPT !.Pwm_Freq = 3]]

\* struct Params P as left by static initialisation
ZeroParams ==
    [Gov_Mode |-> 0, Gov_P_Gain |-> 0, Gov_I_Gain |-> 0, Comm_Timing |-> 0,
     Demag_Comp |-> 0, Direction |-> 0, Pwm_Freq |-> 0, Motor_Gain |-> 0,
     Input_Pol |-> 0]

\* set_default_parameters (multi)
DefaultParams ==
    [Gov_Mode |-> 4, Gov_P_Gain |-> 9, Gov_I_Gain |-> 9, Comm_Timing |-> 3,
     Demag_Comp |-> 2, Direction |-> 1, Pwm_Freq |-> 1, Motor_Gain |-> 3,
     Input_Pol |-> 1]

\* the configurations of the main program, each a parameter set and the kind
\* of RC pulse found at arming: untouched parameters, the defaults with pwm
\* input, the closed loop mode HiRange with pwm input, bidirectional rotation
\* with PPM input
Configs ==
    {<<ZeroParams, FALSE>>,
     <<DefaultParams, FALSE>>,
     <<[DefaultParams EXCEPT !.Gov_Mode = 1], FALSE>>,
     <<[DefaultParams EXCEPT !.Direction = 3], TRUE>>}

ZeroFlags ==
    [PWM_ON |-> FALSE, MOTOR_SPINNING |-> FALSE, DEMAG_CUT_POWER |-> FALSE,
     DEMAG_ENABLED |-> FALSE, DEMAG_DETECTED |-> FALSE,
     STARTUP_PHASE |-> FALSE, INITIAL_RUN_PHASE |-> FALSE,
     DIR_CHANGE_BRAKE |-> FALSE, PGM_PWMOFF_DAMPED |-> FALSE,
     PGM_DIR_REV |-> FALSE, PGM_RCP_PWM_POL |-> FALSE,
     PGM_PWM_HIGH_FREQ |-> FALSE, T3_PENDING |-> FALSE,
     RCP_UPDATED |-> FALSE, RCP_PPM |-> FALSE, RCP_MEAS_PWM_FREQ |-> FALSE]

----------------------------------------------------------------------------
(* Timer 2 interrupt: requested pwm from the RC pulse *)

\* the positive gain correction stored without the limit to 0xff
RcpGain_nolimit(rcp, p) ==
    LET lim  == IF rcp >= 240 THEN 240 ELSE rcp
        t1   == Byte(lim + (lim \div 16))
        q    == t1 \div 4
        a    == IF p.Motor_Gain % 2 = 1 THEN q ELSE q \div 2
        pos  == (p.Motor_Gain \div 4) % 2 = 1
    IN  IF p.Motor_Gain = 3 THEN t1
        ELSE IF pos THEN t1 + a
        ELSE Byte(t1 - a + 256)

\* gain of 1.0625 and tail gain for pwm input when the closed loop mode is off
RcpGain(rcp, p) ==
    LET lim  == IF rcp >= 240 THEN 240 ELSE rcp
        t1   == Byte(lim + (lim \div 16))
        q    == t1 \div 4
        a    == IF p.Motor_Gain % 2 = 1 THEN q ELSE q \div 2
        pos  == (p.Motor_Gain \div 4) % 2 = 1
    IN  IF p.Motor_Gain = 3 THEN t1
        ELSE IF pos THEN (IF t1 + a > 255 THEN 255 ELSE t1 + a)
        ELSE Byte(t1 - a + 256)

\* t2_int_pwm_update: Requested_Pwm from the evaluated pulse
RequestedPwm(rcp, f, p, pwmLimit) ==
    LET t1 == IF ~f.RCP_PPM /\ p.Gov_Mode = 4 THEN RcpGain(rcp, p) ELSE rcp
        b  == IF t1 + 8 > 255 THEN 255 ELSE t1 + 8
    IN  IF f.STARTUP_PHASE
        THEN (IF b >= pwmLimit THEN pwmLimit ELSE b)
        ELSE t1

\* t2_int_current_pwm_done: Current_Pwm_Limited
CurrentPwmLimited(cur, pwmLimit, lowRpm) ==
    LET t1 == IF cur >= pwmLimit THEN pwmLimit ELSE cur
    IN  IF t1 >= lowRpm THEN lowRpm ELSE t1

----------------------------------------------------------------------------
(* Main program: main() calls switch_power_off, decode_parameters and      *)
(* init_start, then loops over the run states.  A position is the part of  *)
(* the program (pc) and the index (ip) of the next routine call in it.     *)

MainSeq == <<"switch_power_off", "decode_parameters">>

InitSeq == <<"init_start", "comm5comm6", "comm6comm1", "initialize_all_timings",
             "calc_next_comm_timing", "calc_new_wait_times">>

HeadSeq == <<"evaluate_comparator_integrity", "setup_comm_wait">>

RunSteps(rs) ==
    CASE rs = 1 -> <<"wait_for_comp_out_high", "calc_governor_target",
                     "wait_for_comm", "wait_for_comm_wait", "comm1comm2">>
      [] rs = 2 -> <<"wait_for_comp_out_low", "calc_governor_prop_error",
                     "set_pwm_limit_low_rpm",
                     "wait_for_comm", "wait_for_comm_wait", "comm2comm3">>
      [] rs = 3 -> <<"wait_for_comp_out_high", "calc_governor_int_error",
                     "wait_for_comm", "wait_for_comm_wait", "comm3comm4">>
      [] rs = 4 -> <<"wait_for_comp_out_low", "evaluate_comparator_integrity",
                     "setup_comm_wait", "calc_governor_prop_correction",
                     "wait_for_comm", "wait_for_comm_wait", "comm4comm5">>
      [] rs = 5 -> <<"wait_for_comp_out_high", "calc_governor_int_correction",
                     "wait_for_comm", "wait_for_comm_wait", "comm5comm6">>
      [] rs = 6 -> <<"wait_for_comp_out_low", "start_adc_conversion",
                     "evaluate_comparator_integrity", "setup_comm_wait",
                     "check_temp_voltage_and_limit_power",
                     "wait_for_comm", "wait_for_comm_wait", "comm6comm1">>

TailSeq == <<"calc_next_comm_timing", "wait_advance_timing", "calc_new_wait_times",
             "wait_before_zc_scan", "DoHousekeeping">>

ProgSeq(p, rs) ==
    CASE p = "main" -> MainSeq
      [] p = "init" -> InitSeq
      [] p = "head" -> HeadSeq
      [] p = "run"  -> RunSteps(rs)
      [] p = "tail" -> TailSeq
      [] OTHER      -> <<>>

NextPc(p) ==
    CASE p = "main" -> "init"
      [] p = "init" -> "head"
      [] p = "head" -> "run"
      [] p = "run"  -> "tail"
      [] p = "tail" -> "head"
      [] OTHER      -> p

\* the routine the main program calls next
Cur == IF ip \in 1..Len(ProgSeq(pc, runState)) THEN ProgSeq(pc, runState)[ip] ELSE "none"

\* return from the routine to the next call
Return ==
    IF ip < Len(ProgSeq(pc, runState))
    THEN pc' = pc /\ ip' = ip + 1
    ELSE pc' = NextPc(pc) /\ ip' = 1

\* a step that skips one state of the cycle
NextRunState_skip(rs) == ((rs + 1) % 6) + 1

\* runState++ in cases run1..run5, runState = run1 in case run6
NextRunState(rs) == IF rs = 6 THEN 1 ELSE rs + 1

\* input sets
RcpValues   == {0, 255}
ElapsedSet  == {32768}
MaxComm     == 8

----------------------------------------------------------------------------
(* Initial state: static initialisation of the globals.  The parameters    *)
(* are either untouched (main() does not load them) or the programmed      *)
(* values with their decoded demag settings, as init_no_signal leaves      *)
(* them.                                                                   *)

InitDrvData ==
    /\ DPTR = "NULL"
    /\ fets = [x \in FETs |-> FALSE]
    /\ deadTime = -1
    /\ Comm_Phase = 0

InitPwmData ==
    /\ New_Rcp = 0
    /\ Requested_Pwm = 0 /\ Governor_Req_Pwm = 0 /\ Current_Pwm = 0
    /\ Current_Pwm_Limited = 0 /\ Pwm_Limit = 0 /\ Pwm_Limit_Spoolup = 0
    /\ Pwm_Limit_Low_Rpm = 0 /\ Pwm_Motor_Idle = 0 /\ Pwm_Spoolup_Beg = 0

InitGovData ==
    /\ Gov_Target = 0 /\ Gov_Integral = 0 /\ Gov_Integral_X = 0
    /\ Gov_Proportional = 0 /\ Gov_Active = FALSE

InitWtData ==
    /\ Startup_Ok_Cnt = 0 /\ Comparator_Read_Cnt = 0
    /\ Wt_Comm = 0 /\ Wt_Advance = 0 /\ Wt_Zc_Scan = 0 /\ Wt_Zc_Timeout = 0
    /\ Next_Wt = 0 /\ TMR3 = 0

InitData ==
    /\ runState = 1
    /\ InitDrvData
    /\ Comm_Period4x = 0 /\ Prev_Comm = 0
    /\ InitPwmData
    /\ InitGovData
    /\ Demag_Detected_Metric = 0
    /\ InitWtData

Init ==
    /\ pc = "main" /\ ip = 1
    /\ hist = 0
    /\ InitData
    /\ \E c \in Configs :
          /\ P = c[1]
          /\ F = [ZeroFlags EXCEPT !.RCP_PPM = c[2]]
    /\ Demag_Pwr_Off_Thresh =
          IF P = ZeroParams THEN 0 ELSE decode_demag_comp(P.Demag_Comp)[1]
    /\ Low_Rpm_Pwr_Slope =
          IF P = ZeroParams THEN 0 ELSE decode_demag_comp(P.Demag_Comp)[2]

----------------------------------------------------------------------------
(* Routine calls of the main program *)

SetDrv(d) == fets' = d.on /\ deadTime' = d.dead

\* the spoolup limit left at the maximum
init_start_limits_max(req) ==
    [Pwm_Limit |-> req, Pwm_Limit_Spoolup |-> 255, Pwm_Limit_Low_Rpm |-> req]

\* init_start: the three limits are set to Requested_Pwm (the call of
\* set_startup_pwm before it is disabled)
init_start_limits(req) ==
    [Pwm_Limit |-> req, Pwm_Limit_Spoolup |-> req, Pwm_Limit_Low_Rpm |-> req]

\* run_to_wait_for_power_on: power off, pwm cleared, motor not spinning; the
\* program then waits for power on (not modelled further)
run_to_wait_for_power_on ==
    /\ SetDrv(switch_power_off(switch_power_off(Drv(fets, -1))))
    /\ Requested_Pwm' = 0 /\ Governor_Req_Pwm' = 0 /\ Current_Pwm' = 0
    /\ Current_Pwm_Limited' = 0 /\ Pwm_Motor_Idle' = 0
    /\ F' = [F EXCEPT !.MOTOR_SPINNING = FALSE]
    /\ pc' = "wait_for_power_on" /\ ip' = 1

main_switch_power_off ==
    /\ Cur = "switch_power_off"
    /\ SetDrv(switch_power_off(Drv(fets, -1)))
    /\ Return
    /\ UNCHANGED <<runState, F, P, DPTR, Comm_Phase, timVars, New_Rcp, pwmVars,
                   govVars, demagVars, cntVars, wtVars, t3Vars, hist>>

main_decode_parameters ==
    /\ Cur = "decode_parameters"
    /\ F' = decode_parameters(F, P).F
    /\ P' = decode_parameters(F, P).P
    /\ Return
    /\ UNCHANGED <<runState, drvVars, timVars, New_Rcp, pwmVars, govVars,
                   demagVars, cntVars, wtVars, t3Vars, hist>>

\* init_start up to the first commutation call
init_start ==
    /\ Cur = "init_start"
    /\ SetDrv(switch_power_off(Drv(fets, -1)))
    /\ LET g == init_start_governor(GovRec)
       IN  /\ Gov_Target' = g.Gov_Target /\ Gov_Integral' = g.Gov_Integral
           /\ Gov_Integral_X' = g.Gov_Integral_X /\ Gov_Active' = g.Gov_Active
    /\ Demag_Detected_Metric' = 0
    /\ Comm_Period4x' = InitialCommPeriod
    /\ LET dp == decode_parameters(F, [P EXCEPT !.Pwm_Freq = 2])
       IN  /\ P' = dp.P
           /\ F' = [dp.F EXCEPT !.STARTUP_PHASE = TRUE, !.MOTOR_SPINNING = TRUE]
    /\ LET l == init_start_limits(0)
       IN  /\ Pwm_Limit' = l.Pwm_Limit /\ Pwm_Limit_Spoolup' = l.Pwm_Limit_Spoolup
           /\ Pwm_Limit_Low_Rpm' = l.Pwm_Limit_Low_Rpm
    /\ Governor_Req_Pwm' = 0
    /\ Requested_Pwm' = 1 /\ Current_Pwm' = 1 /\ Current_Pwm_Limited' = 1
    /\ Startup_Ok_Cnt' = 0
    /\ Return
    /\ UNCHANGED <<runState, DPTR, Comm_Phase, Prev_Comm, New_Rcp, Pwm_Motor_Idle,
                   Pwm_Spoolup_Beg, Gov_Proportional, Demag_Pwr_Off_Thresh,
                   Low_Rpm_Pwr_Slope, Comparator_Read_Cnt, wtVars, t3Vars, hist>>

CommNames == {"comm1comm2", "comm2comm3", "comm3comm4",
              "comm4comm5", "comm5comm6", "comm6comm1"}

CommRoutine(name, d, f, dptr) ==
    CASE name = "comm1comm2" -> comm1comm2(d, f, dptr)
      [] name = "comm2comm3" -> comm2comm3(d, f, dptr)
      [] name = "comm3comm4" -> comm3comm4(d, f, dptr)
      [] name = "comm4comm5" -> comm4comm5(d, f, dptr)
      [] name = "comm5comm6" -> comm5comm6(d, f, dptr)
      [] name = "comm6comm1" -> comm6comm1(d, f, dptr)

\* commutation; in the main loop the switch case then steps runState
Commutate ==
    /\ Cur \in CommNames
    /\ hist < MaxComm
    /\ hist' = hist + 1
    /\ LET r == CommRoutine(Cur, Drv(fets, -1), F, DPTR)
       IN  /\ SetDrv(r.d)
           /\ DPTR' = r.DPTR
           /\ Comm_Phase' = r.Comm_Phase
           /\ F' = r.F
    /\ runState' = IF pc = "run" THEN NextRunState(runState) ELSE runState
    /\ Return
    /\ UNCHANGED <<P, timVars, New_Rcp, pwmVars, govVars, demagVars, cntVars,
                   wtVars, t3Vars>>

initialize_all_timings ==
    /\ Cur = "initialize_all_timings"
    /\ Comm_Period4x' = InitialCommPeriod
    /\ Return
    /\ UNCHANGED <<runState, F, P, drvVars, Prev_Comm, New_Rcp, pwmVars, govVars,
                   demagVars, cntVars, wtVars, t3Vars, hist>>

\* the timer 2 reading is an input: the time since the previous commutation
calc_next_comm_timing ==
    /\ Cur = "calc_next_comm_timing"
    /\ \E t \in ElapsedSet :
          LET tmr2 == Word(Prev_Comm + t)
          IN  /\ Prev_Comm' = tmr2
              /\ Comm_Period4x' =
                     CalcNextCommPeriod(Comm_Period4x, NewCommTime(tmr2, Prev_Comm))
    /\ Return
    /\ UNCHANGED <<runState, F, P, drvVars, New_Rcp, pwmVars, govVars,
                   demagVars, cntVars, wtVars, t3Vars, hist>>

\* at the end of init_start the call is followed by runState = run1
main_calc_new_wait_times ==
    /\ Cur = "calc_new_wait_times"
    /\ LET w == calc_new_wait_times(Comm_Period4x, P.Comm_Timing,
                                    Demag_Detected_Metric, F.PGM_PWMOFF_DAMPED)
       IN  /\ Wt_Comm' = w.Wt_Comm /\ Wt_Advance' = w.Wt_Advance
           /\ Wt_Zc_Scan' = w.Wt_Zc_Scan /\ Wt_Zc_Timeout' = w.Wt_Zc_Timeout
    /\ runState' = IF pc = "init" THEN 1 ELSE runState
    /\ Return
    /\ UNCHANGED <<F, P, drvVars, timVars, New_Rcp, pwmVars, govVars,
                   demagVars, cntVars, t3Vars, hist>>

\* the check of the demag flag left out
evaluate_comparator_integrity_nodemag ==
    /\ Cur = "evaluate_comparator_integrity"
    /\ IF F.STARTUP_PHASE
       THEN /\ Startup_Ok_Cnt' = IF F.T3_PENDING THEN Byte(Startup_Ok_Cnt + 1) ELSE 0
            /\ Return
            /\ UNCHANGED <<F, fets, deadTime, pwmVars>>
       ELSE IF F.T3_PENDING \/ F.DIR_CHANGE_BRAKE
       THEN /\ Return
            /\ UNCHANGED <<F, fets, deadTime, pwmVars, Startup_Ok_Cnt>>
       ELSE /\ run_to_wait_for_power_on
            /\ UNCHANGED <<Pwm_Limit, Pwm_Limit_Spoolup, Pwm_Limit_Low_Rpm,
                           Pwm_Spoolup_Beg, Startup_Ok_Cnt>>
    /\ UNCHANGED <<runState, P, DPTR, Comm_Phase, timVars, New_Rcp, govVars,
                   demagVars, Comparator_Read_Cnt, wtVars, t3Vars, hist>>

\* evaluate_comparator_integrity (listing): in the startup phase the ok counter
\* is incremented, or reset after a timeout; otherwise a timeout without demag
\* and without direction change brake leaves the run
evaluate_comparator_integrity ==
    /\ Cur = "evaluate_comparator_integrity"
    /\ IF F.STARTUP_PHASE
       THEN /\ Startup_Ok_Cnt' = IF F.T3_PENDING THEN Byte(Startup_Ok_Cnt + 1) ELSE 0
            /\ Return
            /\ UNCHANGED <<F, fets, deadTime, pwmVars>>
       ELSE IF F.T3_PENDING \/ F.DEMAG_DETECTED \/ F.DIR_CHANGE_BRAKE
       THEN /\ Return
            /\ UNCHANGED <<F, fets, deadTime, pwmVars, Startup_Ok_Cnt>>
       ELSE /\ run_to_wait_for_power_on
            /\ UNCHANGED <<Pwm_Limit, Pwm_Limit_Spoolup, Pwm_Limit_Low_Rpm,
                           Pwm_Spoolup_Beg, Startup_Ok_Cnt>>
    /\ UNCHANGED <<runState, P, DPTR, Comm_Phase, timVars, New_Rcp, govVars,
                   demagVars, Comparator_Read_Cnt, wtVars, t3Vars, hist>>

\* setup_comm_wait: the C body is Delay1uS(Wt_Comm), a delay.  The set-up of
\* timer 3 (timer loaded with Wt_Comm, Next_Wt = Wt_Advance, T3_PENDING set)
\* stands only in the listing kept behind it and is not executed.
setup_comm_wait ==
    /\ Cur = "setup_comm_wait"
    /\ Return
    /\ UNCHANGED <<runState, F, P, drvVars, timVars, New_Rcp, pwmVars, govVars,
                   demagVars, cntVars, wtVars, t3Vars, hist>>

\* wait_for_comp_out_low and wait_for_comp_out_high
wait_for_comp_out ==
    /\ Cur \in {"wait_for_comp_out_low", "wait_for_comp_out_high"}
    /\ F' = [F EXCEPT !.DEMAG_DETECTED = TRUE]
    /\ Comparator_Read_Cnt' = 0
    /\ Return
    /\ UNCHANGED <<runState, P, drvVars, timVars, New_Rcp, pwmVars, govVars,
                   demagVars, Startup_Ok_Cnt, wtVars, t3Vars, hist>>

SetGov(g) ==
    /\ Gov_Target' = g.Gov_Target /\ Gov_Integral' = g.Gov_Integral
    /\ Gov_Integral_X' = g.Gov_Integral_X /\ Gov_Proportional' = g.Gov_Proportional
    /\ Gov_Active' = g.Gov_Active /\ Governor_Req_Pwm' = g.Governor_Req_Pwm
    /\ Current_Pwm' = g.Current_Pwm /\ Comm_Period4x' = g.Comm_Period4x

GovFrame ==
    UNCHANGED <<runState, F, P, drvVars, Prev_Comm, New_Rcp, Requested_Pwm,
                Current_Pwm_Limited, Pwm_Limit, Pwm_Limit_Spoolup, Pwm_Limit_Low_Rpm,
                Pwm_Motor_Idle, Pwm_Spoolup_Beg, demagVars, cntVars, wtVars,
                t3Vars, hist>>

\* Outcomes of the division 51000L / Requested_Pwm.  With Requested_Pwm = 0
\* the behaviour is undefined: the division traps or yields a result without
\* trapping (0 on a core whose divide instruction does not trap).
Quotients(reqPwm) == IF reqPwm = 0 THEN {0} ELSE {CDiv(51000, reqPwm)}

calc_governor_target ==
    /\ Cur = "calc_governor_target"
    /\ \E q \in Quotients(Requested_Pwm) :
          SetGov(CalcGovernorTarget(GovRec, P, Requested_Pwm, New_Rcp, q))
    /\ Return
    /\ GovFrame

\* the trapping outcome of the division by zero in governor_activate
governor_activate_trap ==
    /\ Cur = "calc_governor_target"
    /\ P.Gov_Mode # 0 /\ Requested_Pwm = 0
    /\ pc' = "fault" /\ ip' = 1
    /\ UNCHANGED <<runState, F, P, drvVars, timVars, New_Rcp, pwmVars, govVars,
                   demagVars, cntVars, wtVars, t3Vars, hist>>

main_calc_governor_prop_error ==
    /\ Cur = "calc_governor_prop_error"
    /\ SetGov(calc_governor_prop_error(GovRec, Pwm_Limit))
    /\ Return
    /\ GovFrame

main_calc_governor_prop_correction ==
    /\ Cur = "calc_governor_prop_correction"
    /\ SetGov(calc_governor_prop_correction(GovRec, P))
    /\ Return
    /\ GovFrame

main_calc_governor_int_correction ==
    /\ Cur = "calc_governor_int_correction"
    /\ SetGov(calc_governor_int_correction(GovRec, P))
    /\ Return
    /\ GovFrame

main_set_pwm_limit_low_rpm ==
    /\ Cur = "set_pwm_limit_low_rpm"
    /\ LET r == set_pwm_limit_low_rpm(Comm_Period4x, F, Current_Pwm_Limited,
                                      Low_Rpm_Pwr_Slope, Pwm_Spoolup_Beg)
       IN  /\ Pwm_Limit_Low_Rpm' = r[1]
           /\ F' = [F EXCEPT !.DEMAG_ENABLED = r[2]]
    /\ Return
    /\ UNCHANGED <<runState, P, drvVars, timVars, New_Rcp, Requested_Pwm,
                   Governor_Req_Pwm, Current_Pwm, Current_Pwm_Limited, Pwm_Limit,
                   Pwm_Limit_Spoolup, Pwm_Motor_Idle, Pwm_Spoolup_Beg, govVars,
                   demagVars, cntVars, wtVars, t3Vars, hist>>

\* routines with an empty body
EmptyRoutines == {"calc_governor_int_error", "start_adc_conversion",
                  "check_temp_voltage_and_limit_power"}

empty_routine ==
    /\ Cur \in EmptyRoutines
    /\ Return
    /\ UNCHANGED <<runState, F, P, drvVars, timVars, New_Rcp, pwmVars, govVars,
                   demagVars, cntVars, wtVars, t3Vars, hist>>

\* wait_for_comm: demag metric update and power cut, then wait_for_comm_wait
wait_for_comm ==
    /\ Cur = "wait_for_comm"
    /\ LET m == NewDemagMetric(Demag_Detected_Metric, F.DEMAG_ENABLED, F.DEMAG_DETECTED)
           cut == m >= Demag_Pwr_Off_Thresh
       IN  /\ Demag_Detected_Metric' = m
           /\ F' = [F EXCEPT !.DEMAG_CUT_POWER = IF cut THEN TRUE ELSE @]
           /\ IF cut THEN SetDrv(All_nFETs_off(Drv(fets, -1)))
                     ELSE UNCHANGED <<fets, deadTime>>
    /\ Return
    /\ UNCHANGED <<runState, P, DPTR, Comm_Phase, timVars, New_Rcp, pwmVars, govVars,
                   Demag_Pwr_Off_Thresh, Low_Rpm_Pwr_Slope, cntVars, wtVars,
                   t3Vars, hist>>

wait_for_comm_wait ==
    /\ Cur = "wait_for_comm_wait"
    /\ ~F.T3_PENDING
    /\ Next_Wt' = Wt_Zc_Scan
    /\ F' = [F EXCEPT !.T3_PENDING = TRUE]
    /\ Return
    /\ UNCHANGED <<runState, P, drvVars, timVars, New_Rcp, pwmVars, govVars,
                   demagVars, cntVars, wtVars, TMR3, hist>>

wait_advance_timing ==
    /\ Cur = "wait_advance_timing"
    /\ ~F.T3_PENDING
    /\ Next_Wt' = Wt_Zc_Timeout
    /\ F' = [F EXCEPT !.T3_PENDING = TRUE]
    /\ Return
    /\ UNCHANGED <<runState, P, drvVars, timVars, New_Rcp, pwmVars, govVars,
                   demagVars, cntVars, wtVars, TMR3, hist>>

\* timeout loaded into timer 3 while starting: Comm_Period4x, with the high
\* byte of Wt_Zc_Timeout when the ok count is below 8 and the low byte is even
StartupZcTimeout(period, okCnt, wtZcTimeout) ==
    LET lo == Word(period) % 256
        hi == IF okCnt < 8 /\ lo % 2 = 0 THEN HiByte(wtZcTimeout) ELSE HiByte(period)
    IN  (hi * 256) + lo

wait_before_zc_scan ==
    /\ Cur = "wait_before_zc_scan"
    /\ ~F.T3_PENDING
    /\ F' = [F EXCEPT !.T3_PENDING = TRUE]
    /\ TMR3' = IF F.STARTUP_PHASE \/ F.INITIAL_RUN_PHASE
               THEN Word(65536 - StartupZcTimeout(Comm_Period4x, Startup_Ok_Cnt,
                                                  Wt_Zc_Timeout))
               ELSE TMR3
    /\ Return
    /\ UNCHANGED <<runState, P, drvVars, timVars, New_Rcp, pwmVars, govVars,
                   demagVars, cntVars, wtVars, Next_Wt, hist>>

\* case run6_check_speed: the commutation period above which the run is left,
\* 0x6000 for a direction change and 0xf000 otherwise
StallThreshold(brake) == IF brake THEN 24576 ELSE 61440

\* DoHousekeeping enters its loop with startState = initialState.  The switch
\* has a case for each label of HousekeepingCases and no default, so no case
\* runs and startState never becomes finished_startup: the loop has no effect
\* and either spins (the program stutters here) or, being free of side
\* effects, is taken to terminate.
HousekeepingCases ==
    {"direct_start_check_rcp", "normal_run_checks", "normal_run_check_startup_rot",
     "initial_run_phase_done", "run6_check_rcp_stop_count", "run6_check_rcp_timeout",
     "run6_check_speed", "run_to_wait_for_power_on", "jmp_wait_for_power_on",
     "finished_startup"}

DoHousekeeping ==
    /\ Cur = "DoHousekeeping"
    /\ "initialState" \notin HousekeepingCases
    /\ Return
    /\ UNCHANGED <<runState, F, P, drvVars, timVars, New_Rcp, pwmVars, govVars,
                   demagVars, cntVars, wtVars, t3Vars, hist>>

----------------------------------------------------------------------------
(* Interrupt handlers.  They run between the routine calls of the main     *)
(* program.                                                                *)

RCP_MIN == 0

\* Timer 0: pwm control.  With pwm on the handler runs the pwm-off cycle,
\* otherwise the pwm-on cycle through DPTR.  DPTR is NULL until the first
\* commutation routine sets it; the jump through it is then undefined and may
\* run any handler (or trap, t0_int_trap).
\* the test of MOTOR_SPINNING in the pwm-on cycle left out
T0Handler_nostop ==
    /\ IF F.PWM_ON
       THEN /\ F' = [F EXCEPT !.PWM_ON = FALSE]
            /\ SetDrv(t0_int_pwm_off(Drv(fets, -1), F, Current_Pwm_Limited,
                                     DAMPED_MODE_ENABLE))
       ELSE IF F.DEMAG_CUT_POWER
       THEN UNCHANGED <<F, fets, deadTime>>
       ELSE \E h \in (IF DPTR = "NULL" THEN Handlers ELSE {DPTR}) :
                /\ SetDrv(PwmOnHandler(h, Drv(fets, -1)))
                /\ F' = [F EXCEPT !.PWM_ON = TRUE]
    /\ UNCHANGED <<ctlVars, P, DPTR, Comm_Phase, timVars, New_Rcp, pwmVars, govVars,
                   demagVars, cntVars, wtVars, t3Vars>>

T0Handler ==
    /\ IF F.PWM_ON
       THEN \* t0_int_pwm_off
            /\ F' = [F EXCEPT !.PWM_ON = FALSE]
            /\ SetDrv(t0_int_pwm_off(Drv(fets, -1), F, Current_Pwm_Limited,
                                     DAMPED_MODE_ENABLE))
       ELSE IF ~F.MOTOR_SPINNING
       THEN \* t0_int_pwm_on_exit
            /\ F' = [F EXCEPT !.PWM_ON = TRUE]
            /\ UNCHANGED <<fets, deadTime>>
       ELSE IF F.DEMAG_CUT_POWER
       THEN \* t0_int_pwm_on_exit_pfets_off
            UNCHANGED <<F, fets, deadTime>>
       ELSE \E h \in (IF DPTR = "NULL" THEN Handlers ELSE {DPTR}) :
                /\ SetDrv(PwmOnHandler(h, Drv(fets, -1)))
                /\ F' = [F EXCEPT !.PWM_ON = TRUE]
    /\ UNCHANGED <<ctlVars, P, DPTR, Comm_Phase, timVars, New_Rcp, pwmVars, govVars,
                   demagVars, cntVars, wtVars, t3Vars>>

t0_int ==
    /\ pc # "fault"
    /\ T0Handler
    /\ hist' = hist

t0_int_trap ==
    /\ pc # "fault"
    /\ ~F.PWM_ON /\ F.MOTOR_SPINNING /\ ~F.DEMAG_CUT_POWER /\ DPTR = "NULL"
    /\ pc' = "fault" /\ ip' = 1
    /\ UNCHANGED <<runState, F, P, drvVars, timVars, New_Rcp, pwmVars, govVars,
                   demagVars, cntVars, wtVars, t3Vars, hist>>

\* Timer 2 from t2_int_pulses_absent on: with the pulses absent the level lvl
\* read from the input pin becomes the pulse; an updated pulse is evaluated to
\* the requested and the current pwm
T2Update(absent, lvl) ==
    LET rcp == IF absent THEN lvl ELSE New_Rcp
        upd == absent \/ F.RCP_UPDATED
        req == IF upd THEN RequestedPwm(rcp, F, P, Pwm_Limit) ELSE Requested_Pwm
        cur == IF upd /\ P.Gov_Mode = 4 THEN req ELSE Current_Pwm
        lim == IF upd /\ P.Gov_Mode # 4 THEN Current_Pwm_Limited
               ELSE CurrentPwmLimited(cur, Pwm_Limit, Pwm_Limit_Low_Rpm)
    IN  /\ New_Rcp' = rcp
        /\ Requested_Pwm' = req
        /\ Current_Pwm' = cur
        /\ Current_Pwm_Limited' = lim
        /\ F' = [F EXCEPT !.RCP_UPDATED = upd /\ F.RCP_MEAS_PWM_FREQ,
                          !.DEMAG_ENABLED = IF lim >= 64 THEN TRUE ELSE @]

\* Timer 2: RC pulse timeout and requested pwm.  The timeout counter is not
\* part of the state: whether the pulses are absent, and the level then read
\* from the input pin, are inputs.
t2_int ==
    /\ pc # "fault"
    /\ \E absent \in BOOLEAN, lvl \in {RCP_MIN, RCP_MAX} : T2Update(absent, lvl)
    /\ UNCHANGED <<ctlVars, P, drvVars, timVars, Governor_Req_Pwm, Pwm_Limit,
                   Pwm_Limit_Spoolup, Pwm_Limit_Low_Rpm, Pwm_Motor_Idle,
                   Pwm_Spoolup_Beg, govVars, demagVars, cntVars, wtVars, t3Vars, hist>>

\* Timer 3: commutation timing
t3_int ==
    /\ pc # "fault"
    /\ F.T3_PENDING
    /\ F' = [F EXCEPT !.T3_PENDING = FALSE]
    /\ TMR3' = Word(65536 - Next_Wt)
    /\ UNCHANGED <<ctlVars, P, drvVars, timVars, New_Rcp, pwmVars, govVars,
                   demagVars, cntVars, wtVars, Next_Wt, hist>>

\* PCA: RC pulse measurement.  The pulse value and, for bidirectional
\* operation with PPM input, the side of centre it lies on are inputs.  A
\* direction change turns all fets off and, unless starting, sets the brake
\* flag.
pca_int ==
    /\ pc # "fault"
    /\ \E rcp \in RcpValues, rev \in BOOLEAN :
          LET change == F.RCP_PPM /\ P.Direction = 3 /\ rev # F.PGM_DIR_REV
          IN  /\ New_Rcp' = rcp
              /\ F' = [F EXCEPT !.RCP_UPDATED = TRUE,
                                !.PGM_DIR_REV = IF change THEN rev ELSE @,
                                !.DIR_CHANGE_BRAKE =
                                    IF change /\ ~F.STARTUP_PHASE THEN TRUE ELSE @]
              /\ IF change
                 THEN SetDrv(All_pFETs_off(All_nFETs_off(Drv(fets, -1))))
                 ELSE UNCHANGED <<fets, deadTime>>
    /\ UNCHANGED <<ctlVars, P, DPTR, Comm_Phase, timVars, pwmVars, govVars,
                   demagVars, cntVars, wtVars, t3Vars, hist>>

----------------------------------------------------------------------------
(* The program *)

Next ==
    \/ main_switch_power_off
    \/ main_decode_parameters
    \/ init_start
    \/ Commutate
    \/ initialize_all_timings
    \/ calc_next_comm_timing
    \/ main_calc_new_wait_times
    \/ evaluate_comparator_integrity
    \/ setup_comm_wait
    \/ wait_for_comp_out
    \/ calc_governor_target
    \/ governor_activate_trap
    \/ main_calc_governor_prop_error
    \/ main_calc_governor_prop_correction
    \/ main_calc_governor_int_correction
    \/ main_set_pwm_limit_low_rpm
    \/ empty_routine
    \/ wait_for_comm
    \/ wait_for_comm_wait
    \/ wait_advance_timing
    \/ wait_before_zc_scan
    \/ DoHousekeeping
    \/ t0_int
    \/ t0_int_trap
    \/ t2_int
    \/ t3_int
    \/ pca_int

Spec == Init /\ [][Next]_vars

----------------------------------------------------------------------------
(* Phase driver on its own: the commutation routines in the order the      *)
(* program calls them (comm5comm6 and comm6comm1 from init_start, then one *)
(* per run state) interleaved with the pwm-on and pwm-off cycles of timer  *)
(* 0, for both values of PGM_PWMOFF_DAMPED and of DIR_CHANGE_BRAKE.  The   *)
(* damped pwm-off cycle is compiled in by DAMPED_MODE_ENABLE == 1, the     *)
(* only build in which PGM_PWMOFF_DAMPED is set.                           *)

\* the commutation routine called in commutation phase ph
CommOfPhase(ph) ==
    CASE ph = 1 -> "comm1comm2" [] ph = 2 -> "comm2comm3" [] ph = 3 -> "comm3comm4"
      [] ph = 4 -> "comm4comm5" [] ph = 6 -> "comm6comm1" [] OTHER -> "comm5comm6"

InitDrv ==
    /\ pc = "drv" /\ ip = 1
    /\ hist = 0
    /\ InitData
    /\ P = DefaultParams
    /\ \E damped \in BOOLEAN, brake \in BOOLEAN :
          F = [ZeroFlags EXCEPT !.PGM_PWMOFF_DAMPED = damped,
                                !.DIR_CHANGE_BRAKE = brake,
                                !.STARTUP_PHASE = TRUE, !.MOTOR_SPINNING = TRUE]
    /\ Demag_Pwr_Off_Thresh = decode_demag_comp(P.Demag_Comp)[1]
    /\ Low_Rpm_Pwr_Slope = decode_demag_comp(P.Demag_Comp)[2]

DrvFrame ==
    UNCHANGED <<ctlVars, P, timVars, New_Rcp, pwmVars, govVars, demagVars,
                cntVars, wtVars, t3Vars, hist>>

DrvCommutate ==
    /\ pc = "drv"
    /\ LET r == CommRoutine(CommOfPhase(Comm_Phase), Drv(fets, -1), F, DPTR)
       IN  /\ SetDrv(r.d)
           /\ DPTR' = r.DPTR
           /\ Comm_Phase' = r.Comm_Phase
           /\ F' = r.F
    /\ DrvFrame

DrvPwmOn ==
    /\ ~F.PWM_ON /\ F.MOTOR_SPINNING /\ DPTR # "NULL"
    /\ SetDrv(PwmOnHandler(DPTR, Drv(fets, -1)))
    /\ F' = [F EXCEPT !.PWM_ON = TRUE]
    /\ UNCHANGED <<DPTR, Comm_Phase>>
    /\ DrvFrame

DrvPwmOff ==
    /\ F.PWM_ON
    /\ SetDrv(t0_int_pwm_off(Drv(fets, -1), F, Current_Pwm_Limited,
                             IF F.PGM_PWMOFF_DAMPED THEN 1 ELSE DAMPED_MODE_ENABLE))
    /\ F' = [F EXCEPT !.PWM_ON = FALSE]
    /\ UNCHANGED <<DPTR, Comm_Phase>>
    /\ DrvFrame

NextDrv == DrvCommutate \/ DrvPwmOn \/ DrvPwmOff

SpecDrv == InitDrv /\ [][NextDrv]_vars

----------------------------------------------------------------------------
(* Commutation timing on its own: calc_next_comm_timing applied again and  *)
(* again with the same measured commutation time.  hist records the time   *)
(* T, the period P0 the run started from and the number n of updates.      *)

MaxSteps      == 170
MaxSmallTime  == 40

\* measured commutation times: the small ones, values around the changes of
\* the averaging constants, and values whose fourfold does not fit 16 bits
TimeSamples == (0..MaxSmallTime) \cup
               {127, 128, 255, 256, 257, 511, 512, 513, 1000, 1001, 1002, 1003,
                4095, 8191, 16383, 16384, 16385, 20000, 32768, 65535}

\* starting periods: the ends of the range, the values set by
\* initialize_all_timings and calc_next_comm_slow, the averaging thresholds
PeriodSamples == {0, 1, 1023, 1024, 2047, 2048, 4000, InitialCommPeriod,
                  SlowCommPeriod}

InitTiming ==
    /\ pc = "timing" /\ ip = 1 /\ runState = 1
    /\ \E t \in TimeSamples, p0 \in PeriodSamples :
          /\ hist = [T |-> t, P0 |-> p0, n |-> 0]
          /\ Comm_Period4x = p0
    /\ Prev_Comm = 0
    /\ P = DefaultParams
    /\ F = [ZeroFlags EXCEPT !.STARTUP_PHASE = TRUE, !.MOTOR_SPINNING = TRUE]
    /\ InitDrvData /\ InitPwmData /\ InitGovData /\ InitWtData
    /\ Demag_Detected_Metric = 0
    /\ Demag_Pwr_Off_Thresh = decode_demag_comp(P.Demag_Comp)[1]
    /\ Low_Rpm_Pwr_Slope = decode_demag_comp(P.Demag_Comp)[2]

\* one commutation later: timer 2 has advanced by T
TimingStep ==
    /\ hist.n < MaxSteps
    /\ hist' = [hist EXCEPT !.n = @ + 1]
    /\ LET tmr2 == Word(Prev_Comm + hist.T)
       IN  /\ Prev_Comm' = tmr2
           /\ Comm_Period4x' =
                  CalcNextCommPeriod(Comm_Period4x, NewCommTime(tmr2, Prev_Comm))
    /\ UNCHANGED <<ctlVars, F, P, drvVars, New_Rcp, pwmVars, govVars, demagVars,
                   cntVars, wtVars, t3Vars>>

NextTiming == TimingStep

SpecTiming == InitTiming /\ [][NextTiming]_vars

\* Commutations further apart than timer 2 counts: the real interval between
\* two calls of calc_next_comm_timing, in timer counts, up to and beyond one
\* period of the 16-bit counter
ElapsedTimes == {10, 1000, 32768, 65535, 65536, 65546, 66536, 98304, 131082}

InitElapsed ==
    /\ pc = "timing" /\ ip = 1 /\ runState = 1
    /\ \E e \in ElapsedTimes, p0 \in PeriodSamples :
          /\ hist = [T |-> e, P0 |-> p0, n |-> 0]
          /\ Comm_Period4x = p0
    /\ Prev_Comm \in {0, 1000, 65000}
    /\ P = DefaultParams
    /\ F = [ZeroFlags EXCEPT !.STARTUP_PHASE = TRUE, !.MOTOR_SPINNING = TRUE]
    /\ InitDrvData /\ InitPwmData /\ InitGovData /\ InitWtData
    /\ Demag_Detected_Metric = 0
    /\ Demag_Pwr_Off_Thresh = decode_demag_comp(P.Demag_Comp)[1]
    /\ Low_Rpm_Pwr_Slope = decode_demag_comp(P.Demag_Comp)[2]

SpecElapsed == InitElapsed /\ [][TimingStep]_vars

----------------------------------------------------------------------------
(* calc_new_wait_times on its own: the routine applied to a period, a      *)
(* timing setting, a demag metric and a damping mode.                      *)

MaxSmallPeriod == 900

\* periods: every value up to MaxSmallPeriod (high byte 0 to 3, where the
\* reductions change and the minimum applies) and values across the range
WaitPeriods == (0..MaxSmallPeriod) \cup {1023, 1024, 2048, 4000, 8191,
                                          InitialCommPeriod, SlowCommPeriod}

\* demag metrics on both sides of the two timing thresholds
WaitMetrics == {0, 120, 129, 130, 159, 160, 255}

InitWait ==
    /\ pc = "calc_new_wait_times" /\ ip = 1 /\ runState = 1
    /\ hist = 0
    /\ Comm_Period4x \in WaitPeriods
    /\ Prev_Comm = 0
    /\ \E timing \in 1..5 : P = [DefaultParams EXCEPT !.Comm_Timing = timing]
    /\ \E damped \in BOOLEAN :
          F = [ZeroFlags EXCEPT !.PGM_PWMOFF_DAMPED = damped,
                                !.STARTUP_PHASE = TRUE, !.MOTOR_SPINNING = TRUE]
    /\ Demag_Detected_Metric \in WaitMetrics
    /\ InitDrvData /\ InitPwmData /\ InitGovData /\ InitWtData
    /\ Demag_Pwr_Off_Thresh = decode_demag_comp(P.Demag_Comp)[1]
    /\ Low_Rpm_Pwr_Slope = decode_demag_comp(P.Demag_Comp)[2]

WaitStep ==
    /\ pc = "calc_new_wait_times"
    /\ pc' = "wait_times_set"
    /\ LET w == calc_new_wait_times(Comm_Period4x, P.Comm_Timing,
                                    Demag_Detected_Metric, F.PGM_PWMOFF_DAMPED)
       IN  /\ Wt_Comm' = w.Wt_Comm /\ Wt_Advance' = w.Wt_Advance
           /\ Wt_Zc_Scan' = w.Wt_Zc_Scan /\ Wt_Zc_Timeout' = w.Wt_Zc_Timeout
    /\ UNCHANGED <<ip, runState, F, P, drvVars, timVars, New_Rcp, pwmVars, govVars,
                   demagVars, cntVars, t3Vars, hist>>

NextWait == WaitStep

SpecWait == InitWait /\ [][NextWait]_vars

----------------------------------------------------------------------------
(* Demag compensation on its own: a running motor past the startup phases  *)
(* with demag detection enabled and demag compensation high.  Each zero    *)
(* cross detection flags a demag event or not (an input), wait_for_comm    *)
(* updates the metric and cuts power, the commutation follows.  hist is    *)
(* the sequence of flags so far.                                           *)

MaxZeroCross == 12
DemagWindow  == 10
DemagEvents  == 9

\* metric at the start of the observed sequence: fresh from init_start, the
\* minimum, and values reached by earlier events
DemagStartMetrics == {0, 120, 137, 200, 255}

\* the last n entries of sequence s
RECURSIVE CountTrue(_)
CountTrue(s) == IF s = <<>> THEN 0
                ELSE (IF Head(s) THEN 1 ELSE 0) + CountTrue(Tail(s))

LastWindow(s) == SubSeq(s, Len(s) - DemagWindow + 1, Len(s))

InitDemag ==
    /\ pc = "wait_for_comp_out" /\ ip = 1 /\ runState = 1
    /\ hist = <<>>
    /\ P = [DefaultParams EXCEPT !.Demag_Comp = 3]
    /\ F = [ZeroFlags EXCEPT !.MOTOR_SPINNING = TRUE, !.DEMAG_ENABLED = TRUE]
    /\ Demag_Detected_Metric \in DemagStartMetrics
    /\ Demag_Pwr_Off_Thresh = decode_demag_comp(P.Demag_Comp)[1]
    /\ Low_Rpm_Pwr_Slope = decode_demag_comp(P.Demag_Comp)[2]
    /\ DPTR = "pwm_cBnFET_off"
    /\ fets = [x \in FETs |-> x \in {"Bp", "Cn"}]
    /\ deadTime = -1
    /\ Comm_Phase = 1
    /\ Comm_Period4x = InitialCommPeriod /\ Prev_Comm = 0
    /\ InitPwmData /\ InitGovData /\ InitWtData

DemagFrame ==
    UNCHANGED <<ip, runState, P, timVars, New_Rcp, pwmVars, govVars,
                Demag_Pwr_Off_Thresh, Low_Rpm_Pwr_Slope, cntVars, wtVars, t3Vars>>

\* zero cross detection with the demag flag as found, then wait_for_comm
DemagWaitForComm ==
    /\ pc = "wait_for_comp_out"
    /\ Len(hist) < MaxZeroCross
    /\ \E detected \in BOOLEAN :
          LET m == NewDemagMetric(Demag_Detected_Metric, F.DEMAG_ENABLED, detected)
              cut == m >= Demag_Pwr_Off_Thresh
          IN  /\ hist' = Append(hist, detected)
              /\ Demag_Detected_Metric' = m
              /\ F' = [F EXCEPT !.DEMAG_DETECTED = detected,
                                !.DEMAG_CUT_POWER = IF cut THEN TRUE ELSE @]
              /\ IF cut THEN SetDrv(All_nFETs_off(Drv(fets, -1)))
                        ELSE UNCHANGED <<fets, deadTime>>
    /\ pc' = "commutate"
    /\ UNCHANGED <<DPTR, Comm_Phase>>
    /\ DemagFrame

DemagCommutate ==
    /\ pc = "commutate"
    /\ pc' = "wait_for_comp_out"
    /\ LET r == CommRoutine(CommOfPhase(Comm_Phase), Drv(fets, -1), F, DPTR)
       IN  /\ SetDrv(r.d)
           /\ DPTR' = r.DPTR
           /\ Comm_Phase' = r.Comm_Phase
           /\ F' = r.F
    /\ UNCHANGED <<Demag_Detected_Metric, hist>>
    /\ DemagFrame

\* pwm cycles of timer 0 between the routines
DemagPwm ==
    /\ IF F.PWM_ON
       THEN /\ F' = [F EXCEPT !.PWM_ON = FALSE]
            /\ SetDrv(t0_int_pwm_off(Drv(fets, -1), F, Current_Pwm_Limited,
                                     DAMPED_MODE_ENABLE))
       ELSE IF F.DEMAG_CUT_POWER
       THEN UNCHANGED <<F, fets, deadTime>>
       ELSE /\ SetDrv(PwmOnHandler(DPTR, Drv(fets, -1)))
            /\ F' = [F EXCEPT !.PWM_ON = TRUE]
    /\ UNCHANGED <<pc, DPTR, Comm_Phase, Demag_Detected_Metric, hist>>
    /\ DemagFrame

NextDemag == DemagWaitForComm \/ DemagCommutate \/ DemagPwm

SpecDemag == InitDemag /\ [][NextDemag]_vars

\* The same with demag compensation off (P.Demag_Comp = 1, for which
\* decode_demag_comp leaves the threshold at 255), from the metric of
\* init_start, the minimum and greater values up to 248
DemagOffStartMetrics == {0, 120, 200, 248}

InitDemagOff ==
    /\ pc = "wait_for_comp_out" /\ ip = 1 /\ runState = 1
    /\ hist = <<>>
    /\ P = [DefaultParams EXCEPT !.Demag_Comp = 1]
    /\ F = [ZeroFlags EXCEPT !.MOTOR_SPINNING = TRUE, !.DEMAG_ENABLED = TRUE]
    /\ Demag_Detected_Metric \in DemagOffStartMetrics
    /\ Demag_Pwr_Off_Thresh = decode_demag_comp(P.Demag_Comp)[1]
    /\ Low_Rpm_Pwr_Slope = decode_demag_comp(P.Demag_Comp)[2]
    /\ DPTR = "pwm_cBnFET_off"
    /\ fets = [x \in FETs |-> x \in {"Bp", "Cn"}]
    /\ deadTime = -1
    /\ Comm_Phase = 1
    /\ Comm_Period4x = InitialCommPeriod /\ Prev_Comm = 0
    /\ InitPwmData /\ InitGovData /\ InitWtData

SpecDemagOff == InitDemagOff /\ [][NextDemag]_vars

----------------------------------------------------------------------------
(* Governor on its own, over several motor runs: init_start begins a run   *)
(* (the governor mode may have been programmed anew while the motor was    *)
(* stopped), then the governor routines follow in the order of the run     *)
(* states.  The requested pwm and the RC pulse, set by the interrupts, are *)
(* inputs of calc_governor_target.  hist counts the transitions from       *)
(* active to inactive.                                                     *)

MaxGovRuns == 3

GovModes       == {0, 1, 4}
GovRequestedPwm == {1, 64, 255}
GovRoutines == <<"calc_governor_target", "calc_governor_prop_error",
                 "calc_governor_prop_correction", "calc_governor_int_correction">>

InitGov ==
    /\ pc = "init_start" /\ ip = 1 /\ runState = 1
    /\ hist = 0
    /\ \E mode \in GovModes : P = [DefaultParams EXCEPT !.Gov_Mode = mode]
    /\ F = ZeroFlags
    /\ InitDrvData /\ InitPwmData /\ InitGovData /\ InitWtData
    /\ Comm_Period4x = 0 /\ Prev_Comm = 0
    /\ Demag_Detected_Metric = 0
    /\ Demag_Pwr_Off_Thresh = decode_demag_comp(P.Demag_Comp)[1]
    /\ Low_Rpm_Pwr_Slope = decode_demag_comp(P.Demag_Comp)[2]

GovOnlyFrame ==
    UNCHANGED <<runState, drvVars, Prev_Comm, Current_Pwm_Limited, Pwm_Limit_Spoolup,
                Pwm_Limit_Low_Rpm, Pwm_Motor_Idle, Pwm_Spoolup_Beg, demagVars,
                cntVars, wtVars, t3Vars>>

\* the motor has stopped, the governor mode is programmed or kept, and
\* init_start begins the next run
GovInitStart ==
    /\ hist < MaxGovRuns
    /\ hist' = IF Gov_Active THEN hist + 1 ELSE hist
    /\ \E mode \in GovModes : P' = [P EXCEPT !.Gov_Mode = mode]
    /\ SetGov([init_start_governor(GovRec) EXCEPT !.Governor_Req_Pwm = 0,
                                                  !.Current_Pwm = 1,
                                                  !.Comm_Period4x = InitialCommPeriod])
    /\ Requested_Pwm' = 1 /\ New_Rcp' = 0 /\ Pwm_Limit' = 0
    /\ F' = [F EXCEPT !.STARTUP_PHASE = TRUE, !.MOTOR_SPINNING = TRUE]
    /\ pc' = "governor" /\ ip' = 1
    /\ GovOnlyFrame

GovTarget ==
    /\ pc = "governor" /\ GovRoutines[ip] = "calc_governor_target"
    /\ \E req \in GovRequestedPwm, rcp \in RcpValues :
          /\ Requested_Pwm' = req /\ New_Rcp' = rcp
          /\ SetGov(CalcGovernorTarget(GovRec, P, req, rcp, CDiv(51000, req)))
    /\ hist' = hist
    /\ ip' = ip + 1
    /\ UNCHANGED <<pc, F, P, Pwm_Limit>>
    /\ GovOnlyFrame

GovCorrection ==
    /\ pc = "governor" /\ GovRoutines[ip] # "calc_governor_target"
    /\ SetGov(CASE GovRoutines[ip] = "calc_governor_prop_error" ->
                       calc_governor_prop_error(GovRec, Pwm_Limit)
                [] GovRoutines[ip] = "calc_governor_prop_correction" ->
                       calc_governor_prop_correction(GovRec, P)
                [] OTHER -> calc_governor_int_correction(GovRec, P))
    /\ ip' = IF ip = Len(GovRoutines) THEN 1 ELSE ip + 1
    /\ UNCHANGED <<pc, F, P, New_Rcp, Requested_Pwm, Pwm_Limit, hist>>
    /\ GovOnlyFrame

NextGov == GovInitStart \/ GovTarget \/ GovCorrection

SpecGov == InitGov /\ [][NextGov]_vars

----------------------------------------------------------------------------
(* Duty on its own: the writers of Requested_Pwm, Current_Pwm and          *)
(* Current_Pwm_Limited for every programmed motor gain and governor mode   *)
(* and for pulses over the whole range.  The C port has no interrupt       *)
(* disable around init_start (the EA writes are disabled), so timer 2 may  *)
(* write Requested_Pwm between its clearing and its copy to the limits:    *)
(* the limits start a run at 0 or at the requested pwm of the last pulse.  *)
(* hist counts the steps.                                                  *)

MaxPwmSteps == 5

PwmRcpSamples == {0, 1, 100, 239, 240, 248, 255}
PwmGains == 1..5

InitPwm ==
    /\ pc = "pwm" /\ ip = 1 /\ runState = 1
    /\ hist = 0
    /\ \E mode \in GovModes, gain \in PwmGains :
          P = [DefaultParams EXCEPT !.Gov_Mode = mode, !.Motor_Gain = gain]
    /\ \E ppm \in BOOLEAN : F = [ZeroFlags EXCEPT !.RCP_PPM = ppm]
    /\ InitDrvData /\ InitPwmData /\ InitGovData /\ InitWtData
    /\ Comm_Period4x = 0 /\ Prev_Comm = 0
    /\ Demag_Detected_Metric = 0
    /\ Demag_Pwr_Off_Thresh = decode_demag_comp(P.Demag_Comp)[1]
    /\ Low_Rpm_Pwr_Slope = decode_demag_comp(P.Demag_Comp)[2]

PwmFrame ==
    UNCHANGED <<ctlVars, P, drvVars, timVars, Pwm_Motor_Idle, Pwm_Spoolup_Beg,
                Gov_Target, Gov_Integral, Gov_Proportional, demagVars, cntVars,
                wtVars, t3Vars>>

\* pca_int stores a measured pulse
PwmPulse ==
    /\ hist < MaxPwmSteps /\ hist' = hist + 1
    /\ \E rcp \in PwmRcpSamples : New_Rcp' = rcp
    /\ F' = [F EXCEPT !.RCP_UPDATED = TRUE]
    /\ UNCHANGED <<Requested_Pwm, Governor_Req_Pwm, Current_Pwm, Current_Pwm_Limited,
                   Pwm_Limit, Pwm_Limit_Spoolup, Pwm_Limit_Low_Rpm, Gov_Integral_X,
                   Gov_Active>>
    /\ PwmFrame

\* timer 2 evaluates the pulse
PwmT2 ==
    /\ hist < MaxPwmSteps /\ hist' = hist + 1
    /\ F.RCP_UPDATED
    /\ LET req == RequestedPwm(New_Rcp, F, P, Pwm_Limit)
           cur == IF P.Gov_Mode = 4 THEN req ELSE Current_Pwm
           lim == IF P.Gov_Mode # 4 THEN Current_Pwm_Limited
                  ELSE CurrentPwmLimited(cur, Pwm_Limit, Pwm_Limit_Low_Rpm)
       IN  /\ Requested_Pwm' = req /\ Current_Pwm' = cur
           /\ Current_Pwm_Limited' = lim
           /\ F' = [F EXCEPT !.RCP_UPDATED = FALSE,
                             !.DEMAG_ENABLED = IF lim >= 64 THEN TRUE ELSE @]
    /\ UNCHANGED <<New_Rcp, Governor_Req_Pwm, Pwm_Limit, Pwm_Limit_Spoolup,
                   Pwm_Limit_Low_Rpm, Gov_Integral_X, Gov_Active>>
    /\ PwmFrame

\* init_start, with or without a timer 2 interrupt before the limits are set
PwmInitStart ==
    /\ hist < MaxPwmSteps /\ hist' = hist + 1
    /\ ~F.MOTOR_SPINNING
    /\ \E r \in {0, RequestedPwm(New_Rcp, F, P, Pwm_Limit)} :
          LET l == init_start_limits(r)
          IN  /\ Pwm_Limit' = l.Pwm_Limit /\ Pwm_Limit_Spoolup' = l.Pwm_Limit_Spoolup
              /\ Pwm_Limit_Low_Rpm' = l.Pwm_Limit_Low_Rpm
    /\ Requested_Pwm' = 1 /\ Current_Pwm' = 1 /\ Current_Pwm_Limited' = 1
    /\ Governor_Req_Pwm' = 0 /\ Gov_Integral_X' = 0 /\ Gov_Active' = FALSE
    /\ F' = [F EXCEPT !.STARTUP_PHASE = TRUE, !.MOTOR_SPINNING = TRUE]
    /\ UNCHANGED New_Rcp
    /\ PwmFrame

\* calc_governor_target followed by calc_governor_prop_error
PwmGovernor ==
    /\ hist < MaxPwmSteps /\ hist' = hist + 1
    /\ F.MOTOR_SPINNING /\ Requested_Pwm # 0
    /\ LET g == calc_governor_prop_error(
                    CalcGovernorTarget(GovRec, P, Requested_Pwm, New_Rcp,
                                       CDiv(51000, Requested_Pwm)), Pwm_Limit)
       IN  /\ Gov_Active' = g.Gov_Active /\ Governor_Req_Pwm' = g.Governor_Req_Pwm
           /\ Gov_Integral_X' = g.Gov_Integral_X /\ Current_Pwm' = g.Current_Pwm
    /\ UNCHANGED <<F, New_Rcp, Requested_Pwm, Current_Pwm_Limited, Pwm_Limit,
                   Pwm_Limit_Spoolup, Pwm_Limit_Low_Rpm>>
    /\ PwmFrame

NextPwm == PwmPulse \/ PwmT2 \/ PwmInitStart \/ PwmGovernor

SpecPwm == InitPwm /\ [][NextPwm]_vars

----------------------------------------------------------------------------
(* Run supervision on its own: the RC pulse counters, which the timer 2    *)
(* interrupts count and DoHousekeeping is to read, with the call of        *)
(* DoHousekeeping at the end of each pass of the commutation loop.  The    *)
(* counters are not part of the main program model (their effect on timer  *)
(* 2 is an input there); here hist holds them.                             *)

RCP_TIMEOUT_PPM == 10
RCP_TIMEOUT     == 24
RCP_STOP_LIMIT  == 250

Rcp_Stop_Cnt    == hist.Rcp_Stop_Cnt
Rcp_Timeout_Cnt == hist.Rcp_Timeout_Cnt

\* the motor runs: init_start is done and the first pass of the loop has
\* reached the call of DoHousekeeping
InitHk ==
    /\ pc = "tail" /\ ip = Len(TailSeq)
    /\ hist = [Rcp_Stop_Cnt |-> 0, Rcp_Timeout_Cnt |-> 0]
    /\ runState = 1
    /\ Comm_Period4x = InitialCommPeriod /\ Prev_Comm = 0
    /\ InitPwmData /\ InitGovData /\ InitWtData
    /\ Demag_Detected_Metric = 0
    /\ P = DefaultParams
    /\ \E ppm \in BOOLEAN, t3 \in BOOLEAN :
          LET f  == [ZeroFlags EXCEPT !.RCP_PPM = ppm, !.STARTUP_PHASE = TRUE,
                                      !.MOTOR_SPINNING = TRUE, !.T3_PENDING = t3]
              r5 == comm5comm6(Drv([x \in FETs |-> FALSE], -1), f, "NULL")
              r6 == comm6comm1(r5.d, r5.F, r5.DPTR)
          IN  /\ F = r6.F /\ DPTR = r6.DPTR /\ Comm_Phase = r6.Comm_Phase
              /\ fets = r6.d.on /\ deadTime = r6.d.dead
    /\ Demag_Pwr_Off_Thresh = decode_demag_comp(P.Demag_Comp)[1]
    /\ Low_Rpm_Pwr_Slope = decode_demag_comp(P.Demag_Comp)[2]

HkFrame ==
    UNCHANGED <<P, drvVars, timVars, Governor_Req_Pwm, Pwm_Limit, Pwm_Limit_Spoolup,
                Pwm_Limit_Low_Rpm, Pwm_Motor_Idle, Pwm_Spoolup_Beg, govVars,
                demagVars, cntVars, wtVars, t3Vars>>

\* Timer 2, low byte: the timeout counter tells whether the pulses are absent
\* and counts down for pwm input
HkT2 ==
    /\ \E lvl \in {RCP_MIN, RCP_MAX} : T2Update(Rcp_Timeout_Cnt = 0, lvl)
    /\ hist' = [hist EXCEPT !.Rcp_Timeout_Cnt =
                    IF @ = 0 THEN (IF F.RCP_PPM /\ ~F.RCP_MEAS_PWM_FREQ
                                   THEN 0 ELSE RCP_TIMEOUT)
                    ELSE IF F.RCP_PPM THEN @ ELSE @ - 1]
    /\ UNCHANGED ctlVars
    /\ HkFrame

\* the stop counter wraps
t2h_int_wrap ==
    /\ hist' = [hist EXCEPT
                    !.Rcp_Timeout_Cnt = IF @ # 0 /\ F.RCP_PPM THEN @ - 1 ELSE @,
                    !.Rcp_Stop_Cnt = IF New_Rcp < RCP_STOP THEN Byte(@ + 1) ELSE 0]
    /\ UNCHANGED <<ctlVars, F, New_Rcp, Requested_Pwm, Current_Pwm,
                   Current_Pwm_Limited>>
    /\ HkFrame

\* Timer 2, high byte (every 32 ms): the timeout counter counts down for PPM
\* input; the stop counter counts the ticks with the pulse below RCP_STOP
t2h_int ==
    /\ hist' = [hist EXCEPT
                    !.Rcp_Timeout_Cnt = IF @ # 0 /\ F.RCP_PPM THEN @ - 1 ELSE @,
                    !.Rcp_Stop_Cnt = IF New_Rcp < RCP_STOP
                                     THEN (IF @ + 1 > 255 THEN 255 ELSE @ + 1)
                                     ELSE 0]
    /\ UNCHANGED <<ctlVars, F, New_Rcp, Requested_Pwm, Current_Pwm,
                   Current_Pwm_Limited>>
    /\ HkFrame

\* PCA: a pulse is measured and the timeout counter set anew
HkPulse ==
    /\ \E rcp \in RcpValues : New_Rcp' = rcp
    /\ F' = [F EXCEPT !.RCP_UPDATED = TRUE]
    /\ hist' = [hist EXCEPT !.Rcp_Timeout_Cnt =
                    IF F.RCP_PPM THEN RCP_TIMEOUT_PPM ELSE RCP_TIMEOUT]
    /\ UNCHANGED <<ctlVars, Requested_Pwm, Current_Pwm, Current_Pwm_Limited>>
    /\ HkFrame

\* the routines of the commutation loop between two calls of DoHousekeeping
HkLoopPass ==
    /\ pc = "head"
    /\ pc' = "tail" /\ ip' = Len(TailSeq)
    /\ runState' = NextRunState(runState)
    /\ UNCHANGED <<F, New_Rcp, Requested_Pwm, Current_Pwm, Current_Pwm_Limited, hist>>
    /\ HkFrame

NextHk == HkT2 \/ t2h_int \/ HkPulse \/ HkLoopPass \/ DoHousekeeping

SpecHk == InitHk /\ [][NextHk]_vars

----------------------------------------------------------------------------
(* The power-off transition on its own: run_to_wait_for_power_on applied   *)
(* in every state of a run that the phase driver and the duty reach, for   *)
(* the limits init_start can leave.  The interrupts go on after it, the    *)
(* commutation of the main loop does not.                                  *)

InitOff ==
    /\ pc = "drv" /\ ip = 1 /\ runState = 1
    /\ hist = 0
    /\ InitDrvData /\ InitGovData /\ InitWtData
    /\ Comm_Period4x = InitialCommPeriod /\ Prev_Comm = 0
    /\ Demag_Detected_Metric = 0
    /\ P = DefaultParams
    /\ F = [ZeroFlags EXCEPT !.STARTUP_PHASE = TRUE, !.MOTOR_SPINNING = TRUE]
    /\ New_Rcp = 0 /\ Governor_Req_Pwm = 0
    /\ Requested_Pwm = 1 /\ Current_Pwm = 1 /\ Current_Pwm_Limited = 1
    /\ Pwm_Motor_Idle = 0 /\ Pwm_Spoolup_Beg = 0
    /\ \E r \in {0, 100, 255} :
          LET l == init_start_limits(r)
          IN  /\ Pwm_Limit = l.Pwm_Limit /\ Pwm_Limit_Spoolup = l.Pwm_Limit_Spoolup
              /\ Pwm_Limit_Low_Rpm = l.Pwm_Limit_Low_Rpm
    /\ Demag_Pwr_Off_Thresh = decode_demag_comp(P.Demag_Comp)[1]
    /\ Low_Rpm_Pwr_Slope = decode_demag_comp(P.Demag_Comp)[2]

OffStep ==
    /\ pc = "drv"
    /\ run_to_wait_for_power_on
    /\ UNCHANGED <<runState, P, DPTR, Comm_Phase, timVars, New_Rcp, Pwm_Limit,
                   Pwm_Limit_Spoolup, Pwm_Limit_Low_Rpm, Pwm_Spoolup_Beg, govVars,
                   demagVars, cntVars, wtVars, t3Vars, hist>>

NextOff ==
    \/ DrvCommutate
    \/ DrvPwmOn
    \/ DrvPwmOff
    \/ PwmPulse
    \/ PwmT2
    \/ OffStep

SpecOff == InitOff /\ [][NextOff]_vars

----------------------------------------------------------------------------
(* The stopped motor against the interrupts: a run is commutated and left  *)
(* by run_to_wait_for_power_on, and the handlers of timer 0, timer 2 and   *)
(* the PCA go on (timer 3 is not armed).  hist counts the timer 0          *)
(* interrupts taken after the stop.                                        *)

MaxStoppedPwm == 3

StopT0 ==
    /\ T0Handler
    /\ hist' = IF pc = "wait_for_power_on" /\ hist < MaxStoppedPwm
               THEN hist + 1 ELSE hist

NextStop ==
    \/ DrvCommutate
    \/ OffStep
    \/ StopT0
    \/ t2_int
    \/ pca_int

SpecStop == InitOff /\ [][NextStop]_vars

----------------------------------------------------------------------------
(* Commutation statement by statement against the pwm interrupt.  The      *)
(* lines "EA = 0" at the head of the commutation routines and "EA = 1" in  *)
(* comm_exit are disabled, so the handlers of timer 0 are enabled at every *)
(* position of the main loop.  ip = 2 is the position before the           *)
(* assignment to Comm_Phase, with DPTR and the switches already set.       *)

\* commutation routine up to its assignment to Comm_Phase; comm_exit, which
\* follows the assignment, acts on the switches only for DIR_CHANGE_BRAKE
comm_write_DPTR ==
    /\ pc = "drv" /\ ip = 1
    /\ LET r == CommRoutine(CommOfPhase(Comm_Phase), Drv(fets, -1),
                            [F EXCEPT !.DIR_CHANGE_BRAKE = FALSE], DPTR)
       IN  /\ SetDrv(r.d)
           /\ DPTR' = r.DPTR
    /\ ip' = 2
    /\ UNCHANGED <<pc, runState, F, P, Comm_Phase, timVars, New_Rcp, pwmVars,
                   govVars, demagVars, cntVars, wtVars, t3Vars, hist>>

\* the assignment to Comm_Phase and the call of comm_exit
comm_write_Comm_Phase ==
    /\ pc = "drv" /\ ip = 2
    /\ LET ph == CommRoutine(CommOfPhase(Comm_Phase), Drv(fets, -1), F, DPTR).Comm_Phase
           r  == comm_exit(CommRec(Drv(fets, -1), F, DPTR, ph))
       IN  /\ Comm_Phase' = ph
           /\ fets' = r.d.on
           /\ deadTime' = IF F.DIR_CHANGE_BRAKE THEN r.d.dead ELSE deadTime
           /\ F' = r.F
    /\ ip' = 1
    /\ UNCHANGED <<pc, runState, P, DPTR, timVars, New_Rcp, pwmVars,
                   govVars, demagVars, cntVars, wtVars, t3Vars, hist>>

NextEA == comm_write_DPTR \/ comm_write_Comm_Phase \/ DrvPwmOn \/ DrvPwmOff

SpecEA == InitDrv /\ [][NextEA]_vars

----------------------------------------------------------------------------
(* The loop of DoHousekeeping iteration by iteration, with the timer 2,    *)
(* timer 3 and PCA interrupts.  hist holds the local variable startState.  *)

startState == hist.startState

InitLoop ==
    /\ pc = "DoHousekeeping" /\ ip = 1
    /\ hist = [startState |-> "initialState"]
    /\ runState \in 1..6
    /\ InitDrvData /\ InitPwmData /\ InitGovData /\ InitWtData
    /\ Comm_Period4x = InitialCommPeriod /\ Prev_Comm = 0
    /\ Demag_Detected_Metric = 0
    /\ P = DefaultParams
    /\ \E ppm \in BOOLEAN, t3 \in BOOLEAN, upd \in BOOLEAN, on \in BOOLEAN :
          F = [ZeroFlags EXCEPT !.RCP_PPM = ppm, !.T3_PENDING = t3,
                                !.RCP_UPDATED = upd, !.PWM_ON = on,
                                !.STARTUP_PHASE = TRUE, !.MOTOR_SPINNING = TRUE]
    /\ Demag_Pwr_Off_Thresh = decode_demag_comp(P.Demag_Comp)[1]
    /\ Low_Rpm_Pwr_Slope = decode_demag_comp(P.Demag_Comp)[2]

\* one iteration of do { switch (startState) ... } while (startState !=
\* finished_startup): the switch has no default, so for a label without a case
\* the iteration assigns nothing.  The bodies of the cases are not entered
\* from initialState.
DoHousekeepingIteration ==
    /\ pc = "DoHousekeeping"
    /\ startState # "finished_startup"
    /\ startState \notin HousekeepingCases
    /\ UNCHANGED vars

NextLoop == DoHousekeepingIteration \/ t2_int \/ t3_int \/ pca_int

\* the processor keeps executing the loop
SpecLoop == InitLoop /\ [][NextLoop]_vars /\ WF_vars(NextLoop)

----------------------------------------------------------------------------
(* set_pwm_limit_low_rpm on its own, outside the startup phases: the       *)
(* routine applied to a period, a slope (decoded from the demag            *)
(* compensation setting), a minimum Pwm_Spoolup_Beg and a limited pwm.     *)

MaxLowRpmHigh == 60

\* periods with every high byte up to MaxLowRpmHigh, where the limit falls
\* from 255 to the slope and then to 0, and periods across the range
LowRpmPeriods ==
    {(h * 256) + lo : h \in 0..MaxLowRpmHigh, lo \in {0, 255}}
        \cup {InitialCommPeriod, 255 * 256, SlowCommPeriod}

InitLowRpm ==
    /\ pc = "set_pwm_limit_low_rpm" /\ ip = 1 /\ runState = 2
    /\ hist = 0
    /\ Comm_Period4x \in LowRpmPeriods /\ Prev_Comm = 0
    /\ \E comp \in 1..3 : P = [DefaultParams EXCEPT !.Demag_Comp = comp]
    /\ F = [ZeroFlags EXCEPT !.MOTOR_SPINNING = TRUE]
    /\ Demag_Pwr_Off_Thresh = decode_demag_comp(P.Demag_Comp)[1]
    /\ Low_Rpm_Pwr_Slope = decode_demag_comp(P.Demag_Comp)[2]
    /\ Demag_Detected_Metric = DemagMetricFloor
    /\ InitDrvData /\ InitGovData /\ InitWtData
    /\ New_Rcp = 0 /\ Governor_Req_Pwm = 0 /\ Pwm_Motor_Idle = 0
    /\ Requested_Pwm \in {32, 255}
    /\ Current_Pwm = Requested_Pwm /\ Current_Pwm_Limited = Requested_Pwm
    /\ Pwm_Limit = 255 /\ Pwm_Limit_Spoolup = 255 /\ Pwm_Limit_Low_Rpm = 255
    /\ Pwm_Spoolup_Beg \in {0, 32, 255}

LowRpmStep ==
    /\ pc = "set_pwm_limit_low_rpm"
    /\ pc' = "low_rpm_limit_set"
    /\ LET r == set_pwm_limit_low_rpm(Comm_Period4x, F, Current_Pwm_Limited,
                                      Low_Rpm_Pwr_Slope, Pwm_Spoolup_Beg)
       IN  /\ Pwm_Limit_Low_Rpm' = r[1]
           /\ F' = [F EXCEPT !.DEMAG_ENABLED = r[2]]
    /\ UNCHANGED <<ip, runState, P, drvVars, timVars, New_Rcp, Requested_Pwm,
                   Governor_Req_Pwm, Current_Pwm, Current_Pwm_Limited, Pwm_Limit,
                   Pwm_Limit_Spoolup, Pwm_Motor_Idle, Pwm_Spoolup_Beg, govVars,
                   demagVars, cntVars, wtVars, t3Vars, hist>>

SpecLowRpm == InitLowRpm /\ [][LowRpmStep]_vars

----------------------------------------------------------------------------
(* evaluate_comparator_integrity on its own: the routine at each of its    *)
(* three calls in the main loop, applied to every valuation of the four    *)
(* flags it reads and to the ends of the range of Startup_Ok_Cnt.          *)

EvalCalls == {<<"head", 1, 1>>, <<"run", 2, 4>>, <<"run", 3, 6>>}

InitEval ==
    /\ \E c \in EvalCalls : pc = c[1] /\ ip = c[2] /\ runState = c[3]
    /\ hist = 0
    /\ InitDrvData /\ InitGovData /\ InitPwmData
    /\ Comm_Period4x = InitialCommPeriod /\ Prev_Comm = 0
    /\ Demag_Detected_Metric = 0
    /\ P = DefaultParams
    /\ \E su, t3, dm, br \in BOOLEAN :
          F = [ZeroFlags EXCEPT !.MOTOR_SPINNING = TRUE, !.STARTUP_PHASE = su,
                                !.T3_PENDING = t3, !.DEMAG_DETECTED = dm,
                                !.DIR_CHANGE_BRAKE = br]
    /\ Startup_Ok_Cnt \in {0, 1, 254, 255} /\ Comparator_Read_Cnt = 0
    /\ Wt_Comm = 0 /\ Wt_Advance = 0 /\ Wt_Zc_Scan = 0 /\ Wt_Zc_Timeout = 0
    /\ Next_Wt = 0 /\ TMR3 = 0
    /\ Demag_Pwr_Off_Thresh = decode_demag_comp(P.Demag_Comp)[1]
    /\ Low_Rpm_Pwr_Slope = decode_demag_comp(P.Demag_Comp)[2]

SpecEval == InitEval /\ [][evaluate_comparator_integrity]_vars

----------------------------------------------------------------------------
(* wait_for_comp_out_not_timed_out on its own, for commutation periods     *)
(* around its thresholds.  hist holds the locals Temp1 and Temp3.  The     *)
(* loop behind the assignments calls comp_wait_on_comp_able_not_timed_out, *)
(* which has no statement, until timer 3 has elapsed or a reading has been *)
(* counted.                                                                *)

\* Temp1, the number of OK readings required, and Temp3, the number of fast
\* consecutive readings
ReadingCounts(period) ==
    IF period > 1280
    THEN IF period > 2560
         THEN IF period > 3840 THEN [Temp1 |-> 3, Temp3 |-> 3]
                               ELSE [Temp1 |-> 3, Temp3 |-> 2]
         ELSE [Temp1 |-> 2, Temp3 |-> 2]
    ELSE [Temp1 |-> 30, Temp3 |-> 1]

\* the readings a zero cross takes
Readings(period) == ReadingCounts(period).Temp1 * ReadingCounts(period).Temp3

MaxReadingHigh == 20

ReadingPeriods ==
    {(h * 256) + lo : h \in 0..MaxReadingHigh, lo \in {0, 1, 255}}
        \cup {InitialCommPeriod, SlowCommPeriod}

InitReadings ==
    /\ pc = "wait_for_comp_out_not_timed_out" /\ ip = 1 /\ runState = 1
    /\ hist = [Temp1 |-> 0, Temp3 |-> 0]
    /\ InitDrvData /\ InitGovData /\ InitPwmData /\ InitWtData
    /\ Comm_Period4x \in ReadingPeriods /\ Prev_Comm = 0
    /\ Demag_Detected_Metric = 0
    /\ P = DefaultParams
    /\ \E t3 \in BOOLEAN :
          F = [ZeroFlags EXCEPT !.MOTOR_SPINNING = TRUE, !.STARTUP_PHASE = TRUE,
                                !.DEMAG_DETECTED = TRUE, !.T3_PENDING = t3]
    /\ Demag_Pwr_Off_Thresh = decode_demag_comp(P.Demag_Comp)[1]
    /\ Low_Rpm_Pwr_Slope = decode_demag_comp(P.Demag_Comp)[2]

ReadingsFrame ==
    UNCHANGED <<ip, runState, F, P, drvVars, timVars, New_Rcp, pwmVars, govVars,
                demagVars, cntVars, wtVars, t3Vars>>

wait_for_comp_out_not_timed_out ==
    /\ pc = "wait_for_comp_out_not_timed_out"
    /\ hist' = ReadingCounts(Comm_Period4x)
    /\ pc' = "comp_wait"
    /\ ReadingsFrame

\* while (F.T3_PENDING && (Comparator_Read_Cnt == 0)) left
comp_wait_done ==
    /\ pc = "comp_wait"
    /\ ~(F.T3_PENDING /\ Comparator_Read_Cnt = 0)
    /\ pc' = "readings_done"
    /\ hist' = hist
    /\ ReadingsFrame

NextReadings ==
    \/ wait_for_comp_out_not_timed_out
    \/ comp_wait_done
    \/ t3_int

SpecReadings == InitReadings /\ [][NextReadings]_vars

----------------------------------------------------------------------------
(* Properties *)

ShootThrough(l) == fets[pFET(l)] /\ fets[nFET(l)]

\* C1: on no leg are the high side and the low side switch both commanded on
C1_NoShootThrough == \A l \in Legs : ~ShootThrough(l)

\* C2: an on-command that follows the off-command of the leg partner in the
\* same routine sees a non-zero dead time
C2_DeadTime == deadTime = -1 \/ deadTime >= 1

\* C3: runState changes only by the commutation that ends a run state, and
\* then to the cyclic successor (run1 -> run2 -> ... -> run6 -> run1), the
\* commutation phase following it; no other step between two commutations,
\* DoHousekeeping included, changes it
C3_RunStateCycle ==
    [][ /\ (runState' # runState) =>
              (pc = "run" /\ Cur \in CommNames /\ hist' = hist + 1)
        /\ (pc = "run" /\ Cur \in CommNames /\ hist' = hist + 1) =>
              /\ runState' = (runState % 6) + 1
              /\ Comm_Phase' = runState'
        /\ (Cur = "DoHousekeeping") => (runState' = runState) ]_vars

\* a full electrical revolution of the main loop is done: the commutation of
\* run6 has brought runState back to run1
C3_Witness == pc = "tail" /\ runState = 1 /\ Comm_Phase = 1 /\ hist >= 8

\* C4: Comm_Period4x stays within 16 bits
C4_PeriodRange == Comm_Period4x \in 0..65535

Dist(a, b) == IF a < b THEN b - a ELSE a - b

SettleSteps == 160
PeriodError == 15

\* C5 as stated: after SettleSteps updates with the same commutation time T
\* the period is within PeriodError of 4*T, and stays there
C5_ConvergesTo4T ==
    hist.n >= SettleSteps => Dist(Comm_Period4x, 4 * hist.T) <= PeriodError

\* C5, amended: after SettleSteps updates with the same commutation time T
\* the period is within PeriodError of 4*T, or of 0xFFFF when 4*T does not
\* fit 16 bits, and stays there
C5_Converges ==
    hist.n >= SettleSteps =>
        Dist(Comm_Period4x, IF 4 * hist.T > 65535 THEN 65535 ELSE 4 * hist.T)
            <= PeriodError

\* a run from the slowest period has settled at four times T = 1000
C5_Witness ==
    /\ hist.n >= SettleSteps /\ hist.T = 1000 /\ hist.P0 = SlowCommPeriod
    /\ Dist(Comm_Period4x, 4000) <= PeriodError

\* C6 as stated: each of the four waits is at least COMM_TIME_MIN << 1
C6_WaitsAtLeastMin2 ==
    pc = "wait_times_set" =>
        \A w \in {Wt_Comm, Wt_Advance, Wt_Zc_Scan, Wt_Zc_Timeout} :
            w >= COMM_TIME_MIN * 2

\* C6, amended: the 15 degree time Wt_Zc_Timeout is at least
\* COMM_TIME_MIN << 1; the waits derived from it are at least half of that,
\* COMM_TIME_MIN, and at least COMM_TIME_MIN << 1 for an odd timing setting,
\* except the 7.5 degree time Wt_Zc_Scan, always only at least COMM_TIME_MIN
C6_WaitsAtLeastMin ==
    pc = "wait_times_set" =>
        /\ Wt_Zc_Timeout >= COMM_TIME_MIN * 2
        /\ Wt_Zc_Scan >= COMM_TIME_MIN
        /\ Wt_Comm >= COMM_TIME_MIN /\ Wt_Advance >= COMM_TIME_MIN
        /\ (WaitTiming(P.Comm_Timing, Demag_Detected_Metric) % 2 = 1) =>
              (Wt_Comm >= COMM_TIME_MIN * 2 /\ Wt_Advance >= COMM_TIME_MIN * 2)

\* the minimum has been applied to a short period: the 15 degree time is
\* COMM_TIME_MIN << 1 and the 7.5 degree time is COMM_TIME_MIN
C6_Witness ==
    /\ pc = "wait_times_set" /\ Comm_Period4x = 16
    /\ Wt_Zc_Timeout = COMM_TIME_MIN * 2 /\ Wt_Zc_Scan = COMM_TIME_MIN

\* C7 as stated: in a motor run the demag metric is within [120, 255]
C7_MetricRange ==
    F.MOTOR_SPINNING => Demag_Detected_Metric \in DemagMetricFloor..255

\* C7, amended: the demag metric is 0 from init_start until the first
\* wait_for_comm of the motor run; every wait_for_comm leaves it within
\* [120, 255], and no other step changes it
C7_MetricRangeAfterWait ==
    [][ /\ (Cur = "wait_for_comm" /\ <<pc, ip>>' # <<pc, ip>>) =>
              Demag_Detected_Metric' \in DemagMetricFloor..255
        /\ (Cur = "init_start" /\ <<pc, ip>>' # <<pc, ip>>) =>
              Demag_Detected_Metric' = 0
        /\ (Demag_Detected_Metric' # Demag_Detected_Metric) =>
              (Cur \in {"wait_for_comm", "init_start"} /\ <<pc, ip>>' # <<pc, ip>>)
      ]_vars

\* wait_for_comm has run in every run state and the metric is at its floor
C7_Witness ==
    /\ pc = "tail" /\ hist >= 8 /\ F.MOTOR_SPINNING
    /\ Demag_Detected_Metric = DemagMetricFloor

C10_GovGate ==
    Gov_Active => (~F.STARTUP_PHASE /\ ~F.INITIAL_RUN_PHASE /\ P.Gov_Mode # 4)

\* a routine of the main program runs to its return
RoutineStep(name) == Cur = name /\ <<pc, ip>>' # <<pc, ip>>

\* C11: with the governor active, the proportional error Governor_Req_Pwm -
\* Gov_Target zero and the integral error zero, no routine of the governor
\* revolution changes Current_Pwm
C11_NoDriftAtEquilibrium ==
    [][ \A i \in 1..Len(GovRoutines) :
            (/\ RoutineStep(GovRoutines[i])
             /\ Gov_Active'
             /\ Governor_Req_Pwm' = Gov_Target'
             /\ Gov_Integral' = 0) =>
                Current_Pwm' = Current_Pwm ]_vars

\* C12: Requested_Pwm, Current_Pwm and Current_Pwm_Limited lie in [0, 255]
C12_PwmRange ==
    /\ Requested_Pwm \in 0..255
    /\ Current_Pwm \in 0..255
    /\ Current_Pwm_Limited \in 0..255

\* a positive gain correction above the range was stored as 0xff
C12_Witness ==
    /\ P.Motor_Gain = 5 /\ P.Gov_Mode = 4 /\ ~F.RCP_PPM /\ ~F.STARTUP_PHASE
    /\ New_Rcp = 255 /\ ~F.RCP_UPDATED
    /\ Requested_Pwm = 255 /\ Current_Pwm = 255

\* C13: Current_Pwm_Limited is the minimum of Current_Pwm, Pwm_Limit,
\* Pwm_Limit_Spoolup and Pwm_Limit_Low_Rpm
C13_DutyIsMinimum ==
    LET S == {Current_Pwm, Pwm_Limit, Pwm_Limit_Spoolup, Pwm_Limit_Low_Rpm}
    IN  \E m \in S : (\A x \in S : m <= x) /\ Current_Pwm_Limited = m

AllSwitchesOff == \A x \in FETs : ~fets[x]

\* C15: a call of DoHousekeeping made with the stop counter above
\* RCP_STOP_LIMIT, the throttle having stayed below RCP_STOP for that many 32
\* ms ticks, ends at wait for power on with all switches off and the governor
\* inactive
C15_ThrottleStop ==
    [][ (RoutineStep("DoHousekeeping") /\ Rcp_Stop_Cnt > RCP_STOP_LIMIT) =>
            (pc' = "wait_for_power_on" /\ AllSwitchesOff' /\ ~Gov_Active') ]_vars

\* C16: when the zero cross timeout set up by wait_before_zc_scan has elapsed
\* at the next evaluate_comparator_integrity, no zero cross having been
\* confirmed, the run is aborted to wait for power on
C16_TimeoutAborts ==
    [][ (/\ RoutineStep("evaluate_comparator_integrity")
         /\ pc = "head" /\ hist >= 3
         /\ F.MOTOR_SPINNING /\ ~F.T3_PENDING) =>
            pc' = "wait_for_power_on" ]_vars

StartupConfirmations == 6

\* C17, for a comparator that never fails (K = 0): once StartupConfirmations
\* zero crosses in a row have been confirmed in time, one per run state, the
\* startup phase has ended and the initial run phase is reached
C17_StartupEnds ==
    (F.MOTOR_SPINNING /\ Startup_Ok_Cnt >= StartupConfirmations) =>
        (F.INITIAL_RUN_PHASE /\ ~F.STARTUP_PHASE)

\* C18: a call of DoHousekeeping made in a run with PPM input and the timeout
\* counter at zero (signal lost) powers the motor down and goes back to the
\* detection of the input signal
C18_SignalLoss ==
    [][ (/\ RoutineStep("DoHousekeeping")
         /\ F.MOTOR_SPINNING /\ F.RCP_PPM /\ Rcp_Timeout_Cnt = 0) =>
            (pc' = "init_no_signal" /\ AllSwitchesOff' /\ ~F'.MOTOR_SPINNING) ]_vars

\* C19: the transition to wait for power on leaves all six switches off, the
\* duty variables, the governor target and the three pwm limits at zero and
\* MOTOR_SPINNING cleared
C19_MotorOff ==
    [][ (pc # "wait_for_power_on" /\ pc' = "wait_for_power_on") =>
            /\ AllSwitchesOff'
            /\ Requested_Pwm' = 0 /\ Governor_Req_Pwm' = 0
            /\ Current_Pwm' = 0 /\ Current_Pwm_Limited' = 0
            /\ Gov_Target' = 0
            /\ Pwm_Limit' = 0 /\ Pwm_Limit_Spoolup' = 0 /\ Pwm_Limit_Low_Rpm' = 0
            /\ ~F'.MOTOR_SPINNING ]_vars

\* C20: the main loop writes DPTR and Comm_Phase of one commutation with the
\* interrupts disabled: while it stands between the two writes no interrupt
\* handler runs, the next step is the write of Comm_Phase
C20_NoInterruptInCommutation ==
    [][ (pc = "drv" /\ ip = 2) => ip' = 1 ]_vars

\* C21: every call of DoHousekeeping terminates: its loop reaches
\* startState = finished_startup
C21_HousekeepingTerminates == <>(startState = "finished_startup")

C23_CommWaitAfterZeroCross ==
    [][ RoutineStep("setup_comm_wait") => (pc = "run" /\ ip > 1) ]_vars

\* C24: the intervals of timer 3 are loaded in the order Wt_Comm, Wt_Advance,
\* Wt_Zc_Scan, Wt_Zc_Timeout: setup_comm_wait starts Wt_Comm and leaves
\* Wt_Advance as the next interval with T3_PENDING set, wait_for_comm_wait
\* replaces Wt_Advance by Wt_Zc_Scan, and wait_advance_timing replaces
\* Wt_Zc_Scan by Wt_Zc_Timeout
C24_WaitOrder ==
    [][ /\ RoutineStep("setup_comm_wait") =>
               (TMR3' = Word(65536 - Wt_Comm) /\ Next_Wt' = Wt_Advance /\ F'.T3_PENDING)
        /\ RoutineStep("wait_for_comm_wait") =>
               (Next_Wt = Wt_Advance /\ Next_Wt' = Wt_Zc_Scan)
        /\ RoutineStep("wait_advance_timing") =>
               (Next_Wt = Wt_Zc_Scan /\ Next_Wt' = Wt_Zc_Timeout) ]_vars

\* C25 as stated: comm wait and advance wait add up to twice the 15 degree
\* time Wt_Zc_Timeout, and the zero cross scan wait is half of it
C25_WaitSumExact ==
    pc = "wait_times_set" =>
        /\ Wt_Comm + Wt_Advance = 2 * Wt_Zc_Timeout
        /\ 2 * Wt_Zc_Scan = Wt_Zc_Timeout

\* C25, amended: the zero cross scan wait is the 15 degree time halved with
\* the remainder dropped; comm wait and advance wait add up to twice the 15
\* degree time for the effective timings 1, 3 and 5, and to the 15 degree
\* time plus twice the scan wait (one less for an odd 15 degree time) for
\* the timings 2 and 4
C25_WaitSum ==
    pc = "wait_times_set" =>
        LET t8 == WaitTiming(P.Comm_Timing, Demag_Detected_Metric)
        IN  /\ Wt_Zc_Scan = Wt_Zc_Timeout \div 2
            /\ Wt_Comm + Wt_Advance =
                  IF t8 \in {2, 4} THEN Wt_Zc_Timeout + (2 * Wt_Zc_Scan)
                  ELSE 2 * Wt_Zc_Timeout

\* timing 4 with an odd 15 degree time: the sum is one short of twice it
C25_Witness ==
    /\ pc = "wait_times_set"
    /\ WaitTiming(P.Comm_Timing, Demag_Detected_Metric) = 4
    /\ Wt_Zc_Timeout % 2 = 1
    /\ Wt_Comm + Wt_Advance = (2 * Wt_Zc_Timeout) - 1

\* C26 as stated: the waits are those of the configured timing raised by one
\* for a metric of at least 130 and by one more for at least 160, capped at
\* 5, and for the same period and setting no higher metric gives a larger
\* comm wait
C26_MoreAdvanceAlways ==
    pc = "wait_times_set" =>
        \A m \in WaitMetrics :
            m >= Demag_Detected_Metric =>
                calc_new_wait_times(Comm_Period4x, P.Comm_Timing, m,
                                    F.PGM_PWMOFF_DAMPED).Wt_Comm <= Wt_Comm

\* C26, amended: the effective timing is as stated; a higher metric gives no
\* larger comm wait when the 15 degree time is at least 4, twice the minimum
\* COMM_TIME_MIN << 1
C26_MoreAdvance ==
    pc = "wait_times_set" =>
        LET m   == Demag_Detected_Metric
            lvl == P.Comm_Timing + (IF m >= 130 THEN 1 ELSE 0)
                                 + (IF m >= 160 THEN 1 ELSE 0)
            eff == IF lvl > 5 THEN 5 ELSE lvl
            w   == calc_new_wait_times(Comm_Period4x, eff, 0, F.PGM_PWMOFF_DAMPED)
        IN  /\ <<Wt_Comm, Wt_Advance, Wt_Zc_Scan, Wt_Zc_Timeout>> =
                   <<w.Wt_Comm, w.Wt_Advance, w.Wt_Zc_Scan, w.Wt_Zc_Timeout>>
            /\ Wt_Zc_Timeout >= 4 * COMM_TIME_MIN =>
                   \A m2 \in WaitMetrics :
                       m2 >= m =>
                           calc_new_wait_times(Comm_Period4x, P.Comm_Timing, m2,
                                               F.PGM_PWMOFF_DAMPED).Wt_Comm <= Wt_Comm

\* setting 3 raised twice by a metric of 160: timing 5, the comm wait is the
\* minimum and the advance wait takes the rest
C26_Witness ==
    /\ pc = "wait_times_set"
    /\ P.Comm_Timing = 3 /\ Demag_Detected_Metric = 160
    /\ Wt_Zc_Timeout >= 4 * COMM_TIME_MIN
    /\ Wt_Comm = COMM_TIME_MIN * 2
    /\ Wt_Advance = (2 * Wt_Zc_Timeout) - (COMM_TIME_MIN * 2)

\* C27: while DEMAG_CUT_POWER is set no pwm cycle of timer 0 turns an nFET on
\* or clears the flag; the flag is set only by wait_for_comm, with the metric
\* at or above Demag_Pwr_Off_Thresh, and is cleared by the commutation that
\* follows
C27_DemagCutUntilCommutation ==
    [][ /\ (F.DEMAG_CUT_POWER /\ pc' = pc) =>
               /\ F'.DEMAG_CUT_POWER
               /\ \A l \in Legs : fets'[nFET(l)] => fets[nFET(l)]
        /\ (~F.DEMAG_CUT_POWER /\ F'.DEMAG_CUT_POWER) =>
               /\ pc = "wait_for_comp_out"
               /\ Demag_Detected_Metric' >= Demag_Pwr_Off_Thresh
        /\ (pc = "commutate" /\ pc' # pc) => ~F'.DEMAG_CUT_POWER ]_vars

\* power is cut, the pwm is in its off phase and no nFET is on: the pwm on
\* cycle of timer 0 is due with the flag set
C27_Witness ==
    /\ pc = "commutate" /\ Len(hist) >= 2
    /\ F.DEMAG_CUT_POWER /\ ~F.PWM_ON
    /\ \A l \in Legs : ~fets[nFET(l)]

\* C28: with the governor active the proportional and the integral correction
\* are the error times GOV_GAIN_TABLE[setting] / 16, limited to [-127, 127]
C28_GainFromTable ==
    [][ (pc = "governor" /\ Gov_Active /\ Gov_Active' /\ ip' # ip) =>
           /\ GovRoutines[ip] = "calc_governor_prop_correction" =>
                  Gov_Proportional' =
                      Limit1(CDiv(GOV_GAIN_TABLE[P.Gov_P_Gain] * Gov_Proportional, 16), 127)
           /\ GovRoutines[ip] = "calc_governor_int_correction" =>
                  Gov_Integral' =
                      Limit1(CDiv(GOV_GAIN_TABLE[P.Gov_I_Gain] * Gov_Integral, 16), 127)
      ]_vars

\* C29: outside the startup phases the limit set by set_pwm_limit_low_rpm lies
\* in [Pwm_Spoolup_Beg, 255], is 255 for a zero high byte of Comm_Period4x,
\* and no period with a greater high byte gives a greater limit for the same
\* slope and minimum
C29_LowRpmLimit ==
    pc = "low_rpm_limit_set" =>
        /\ Pwm_Limit_Low_Rpm \in Pwm_Spoolup_Beg..255
        /\ HiByte(Comm_Period4x) = 0 => Pwm_Limit_Low_Rpm = 255
        /\ \A p2 \in LowRpmPeriods :
               HiByte(p2) >= HiByte(Comm_Period4x) =>
                   set_pwm_limit_low_rpm(p2, F, Current_Pwm_Limited, Low_Rpm_Pwr_Slope,
                                         Pwm_Spoolup_Beg)[1] <= Pwm_Limit_Low_Rpm

\* a slow period: the slope times 255 / high byte lies under the minimum and
\* the limit is the minimum
C29_Witness ==
    /\ pc = "low_rpm_limit_set"
    /\ HiByte(Comm_Period4x) = 40 /\ Low_Rpm_Pwr_Slope = 5
    /\ Pwm_Spoolup_Beg = 32 /\ Pwm_Limit_Low_Rpm = 32

\* C30: a call of DoHousekeeping in a run leaves the run for wait for power
\* on exactly when Comm_Period4x exceeds the stall threshold, and otherwise
\* leaves runState as it is
C30_StallLeavesRun ==
    [][ (RoutineStep("DoHousekeeping") /\ F.MOTOR_SPINNING) =>
           IF Comm_Period4x > StallThreshold(F.DIR_CHANGE_BRAKE)
           THEN pc' = "wait_for_power_on"
           ELSE pc' # "wait_for_power_on" /\ runState' = runState ]_vars

\* C31: at evaluate_comparator_integrity after a timeout (T3_PENDING clear),
\* outside the startup phase the run is left for wait for power on exactly
\* when neither DEMAG_DETECTED nor DIR_CHANGE_BRAKE is set; in the startup
\* phase the run is never left and the timeout only resets Startup_Ok_Cnt
C31_TimeoutDecision ==
    [][ RoutineStep("evaluate_comparator_integrity") =>
          /\ (~F.STARTUP_PHASE /\ ~F.T3_PENDING) =>
                ((pc' = "wait_for_power_on" /\ ~F'.MOTOR_SPINNING)
                    <=> (~F.DEMAG_DETECTED /\ ~F.DIR_CHANGE_BRAKE))
          /\ (~F.STARTUP_PHASE /\ pc' # "wait_for_power_on") =>
                (F' = F /\ Startup_Ok_Cnt' = Startup_Ok_Cnt)
          /\ F.STARTUP_PHASE => pc' # "wait_for_power_on" /\ F' = F
          /\ (F.STARTUP_PHASE /\ ~F.T3_PENDING) =>
                (Startup_Ok_Cnt' = 0 /\ fets' = fets /\ pwmVars' = pwmVars) ]_vars

C31_Witness ==
    /\ pc = "wait_for_power_on" /\ ~F.MOTOR_SPINNING
    /\ ~F.STARTUP_PHASE /\ ~F.T3_PENDING /\ ~F.DEMAG_DETECTED /\ ~F.DIR_CHANGE_BRAKE
    /\ Startup_Ok_Cnt = 255

\* C32: a zero cross wait (wait_for_comp_out_low or _high) that ends before
\* its timeout, timer 3 still pending, has accepted a comparator reading and
\* so ends with DEMAG_DETECTED cleared
C32_AcceptedAfterDemagCleared ==
    [][ (/\ \/ RoutineStep("wait_for_comp_out_low")
            \/ RoutineStep("wait_for_comp_out_high")
         /\ F'.T3_PENDING) => ~F'.DEMAG_DETECTED ]_vars

\* C33: the readings required for a zero cross, Temp1 OK readings of Temp3
\* consecutive readings each, do not decrease with Comm_Period4x: no longer
\* period takes fewer readings than the period of this wait
C33_ReadingsMonotone ==
    pc \in {"comp_wait", "readings_done"} =>
        \A p2 \in ReadingPeriods :
            p2 >= Comm_Period4x => Readings(p2) >= hist.Temp1 * hist.Temp3

\* C34: a housekeeping pass that sees a brake request (DIR_CHANGE_BRAKE)
\* before the initial run phase has ended, the motor still starting, leaves
\* the run for wait for power on
C34_BrakeBeforeRunAborts ==
    [][ (/\ RoutineStep("DoHousekeeping")
         /\ F.MOTOR_SPINNING /\ F.DIR_CHANGE_BRAKE
         /\ (F.STARTUP_PHASE \/ F.INITIAL_RUN_PHASE)) =>
            (pc' = "wait_for_power_on" /\ ~F'.MOTOR_SPINNING) ]_vars

\* C35: decode_parameters leaves every field of P as it is, and init_start
\* returns with P.Pwm_Freq at the value it had before the call
C35_ParamsReadOnly ==
    [][ /\ RoutineStep("decode_parameters") => P' = P
        /\ RoutineStep("init_start") => P'.Pwm_Freq = P.Pwm_Freq ]_vars

C37_CommTimeSaturates ==
    [][ (hist'.n # hist.n /\ hist.T > 65535) =>
            Comm_Period4x' = CalcNextCommPeriod(Comm_Period4x, 65535) ]_vars

\* C38: once run_to_wait_for_power_on has cleared MOTOR_SPINNING no interrupt
\* handler switches a FET on: no step of the stopped motor takes a switch from
\* off to on, and a pwm-on interrupt leaves the switches as they are
C38_StoppedMotorStaysOff ==
    [][ (pc = "wait_for_power_on" /\ ~F.MOTOR_SPINNING) =>
           /\ \A x \in FETs : fets'[x] => fets[x]
           /\ (hist' # hist /\ ~F.PWM_ON) => fets' = fets ]_vars

\* a pwm-on and a pwm-off interrupt have run after the stop
C38_Witness ==
    /\ pc = "wait_for_power_on" /\ ~F.MOTOR_SPINNING
    /\ hist >= 2 /\ ~F.PWM_ON /\ DPTR # "NULL"
    /\ \A x \in FETs : ~fets[x]

\* C39: Rcp_Stop_Cnt stays within 0..255; it changes only to 0, with New_Rcp
\* at or above RCP_STOP, or by one upwards, with New_Rcp below RCP_STOP; a 32
\* ms tick (seen for PPM input by the count down of Rcp_Timeout_Cnt) resets it
\* or counts it up to at most 255; while New_Rcp stays below RCP_STOP it never
\* decreases, so from above RCP_STOP_LIMIT it only comes back with the
\* throttle at or above RCP_STOP
C39_StopCountSaturates ==
    /\ [](Rcp_Stop_Cnt \in 0..255)
    /\ [][ /\ Rcp_Stop_Cnt' # Rcp_Stop_Cnt =>
                IF New_Rcp >= RCP_STOP THEN Rcp_Stop_Cnt' = 0
                ELSE Rcp_Stop_Cnt' = Rcp_Stop_Cnt + 1
           /\ (F.RCP_PPM /\ Rcp_Timeout_Cnt' = Rcp_Timeout_Cnt - 1) =>
                Rcp_Stop_Cnt' = IF New_Rcp >= RCP_STOP THEN 0
                                ELSE IF Rcp_Stop_Cnt = 255 THEN 255
                                ELSE Rcp_Stop_Cnt + 1
           /\ New_Rcp < RCP_STOP => Rcp_Stop_Cnt' >= Rcp_Stop_Cnt
           /\ (Rcp_Stop_Cnt > RCP_STOP_LIMIT /\ Rcp_Stop_Cnt' <= RCP_STOP_LIMIT) =>
                New_Rcp >= RCP_STOP ]_vars

\* the counter has reached its maximum with the throttle below stop
C39_Witness ==
    /\ Rcp_Stop_Cnt = 255 /\ New_Rcp < RCP_STOP

\* C40: with demag compensation off (Demag_Pwr_Off_Thresh = 255) and a metric
\* that started at or below 248, the metric stays below 255 whatever the
\* sequence of demag events, and wait_for_comm never sets DEMAG_CUT_POWER
C40_NoCutWhenDisabled ==
    Demag_Pwr_Off_Thresh = 255 =>
        (Demag_Detected_Metric < 255 /\ ~F.DEMAG_CUT_POWER)

\* demag at every zero cross from 248 on: the metric stands at 249
C40_Witness ==
    /\ Demag_Pwr_Off_Thresh = 255
    /\ Len(hist) >= 3 /\ \A i \in 1..Len(hist) : hist[i]
    /\ Demag_Detected_Metric = 249 /\ ~F.DEMAG_CUT_POWER

====
